---- MODULE Spec2Model ----
(***************************************************************************)
(* A model of the live trading engine of poly-maker: the per-market task   *)
(* scheduler, the order-book registry with its mirrored ladders, local     *)
(* position accounting, and the per-market trading pass.                   *)
(*                                                                         *)
(* Prices are integers in units of 1/10000 (0.42 is 4200); sizes are       *)
(* integers; an average price is an exact fraction [n, d].                 *)
(***************************************************************************)
EXTENDS Integers, Sequences, FiniteSets, TLC

\* ------------------------------------------------------------------------
\* Bounds of the model
\* ------------------------------------------------------------------------

\* order IDs the exchange hands out in one run
MaxOrderId == 3

\* trade fills applied to the local positions in one run
MaxTrades == 3

MaxClock == 8100

\* ------------------------------------------------------------------------
\* The universe
\* ------------------------------------------------------------------------

Markets == {"m1", "m2"}

OrderIds == 1..MaxOrderId

EventTypes == {"PLACEMENT", "UPDATE", "CANCELLATION"}

\* the two outcome tokens of market m1, and global_state.REVERSE_TOKENS
Tokens == {"T1", "T2"}

REVERSE_TOKENS == [t \in Tokens |-> IF t = "T1" THEN "T2" ELSE "T1"]

Sides == {"buy", "sell"}

\* sizes and prices of the trade events fed to set_position
FillSizes == {5, 10}

FillPrices == {4000, 5000}

\* "book" messages: the bids and asks of a snapshot, prices as sent
Level(price, size) == [price |-> price, size |-> size]

BookSnapshots ==
    { [bids |-> <<Level(4000, 100), Level(3900, 50)>>, asks |-> <<Level(4200, 80)>>],
      [bids |-> <<Level(4204, 70), Level(4200, 30)>>, asks |-> <<Level(5800, 80)>>],
      [bids |-> <<>>, asks |-> <<>>] }

\* the books the engine probes: those above, one whose best levels hold
\* exactly 100 and 20 shares, and one deep enough for the first probe
ProbeSnapshots ==
    BookSnapshots
    \cup { [bids |-> <<Level(4000, 100), Level(3900, 150)>>,
            asks |-> <<Level(4200, 20), Level(4300, 30)>>],
          [bids |-> <<Level(4000, 150)>>, asks |-> <<Level(4200, 100), Level(4300, 120)>>] }

\* books with and without a price on each side
SkipSnapshots ==
    { [bids |-> <<Level(4200, 30)>>, asks |-> <<Level(5800, 80)>>],
      [bids |-> <<Level(4200, 30)>>, asks |-> <<>>],
      [bids |-> <<>>, asks |-> <<Level(5800, 80)>>],
      [bids |-> <<>>, asks |-> <<>>] }

\* "price_change" entries: price levels and new sizes (0 removes the level)
ChangePrices == {4204}

ChangeSizes == {0, 30}

\* the agent's own resting orders
OrderPrices == {4204}

OrderSizes == {30, 100}

\* row['tick_size'] of a market: 0.1, 0.01, 0.001
TickSizes == {1000, 100, 10}

Row(tick_size, trade_size, max_size, hour3) ==
    [tick_size |-> tick_size, min_size |-> 5, trade_size |-> trade_size,
     max_size |-> max_size, hour3 |-> hour3]

BaseRow == Row(100, 10, 100, 10)

\* rows of the market table: each tick, a small max_size, a trade_size below
\* min_size, a volatile market
MarketRows ==
    {Row(t, 10, 100, 10) : t \in TickSizes}
    \cup {Row(100, 10, 20, 10), Row(100, 3, 100, 10), Row(100, 10, 100, 200)}

\* what get_order_prices returns for a token: raw quotes, or an exception
Quote(bid, ask) == [raises |-> FALSE, bid |-> bid, ask |-> ask]

Raises == [raises |-> TRUE, bid |-> 0, ask |-> 0]

StrategyResults ==
    { Quote(4237, 4462), Quote(4937, 5162), Quote(8962, 9187), Quote(537, 762), Raises }

\* the strategy's answers for the two tokens of a pass
StrategyOutcomes ==
    {[t \in Tokens |-> r] : r \in StrategyResults}
    \cup {[T1 |-> Quote(4237, 4462), T2 |-> Raises],
          [T1 |-> Quote(4237, 4462), T2 |-> Quote(4937, 5162)]}

\* global_state.available_liquidity, in 1/10000 dollars: 1000 dollars, none
AmpleLiquidity == 10000000

NoLiquidity == 0

PassInput(listed, row, in_positions, in_selected, available_liquidity, strategy, resp_ok) ==
    [listed |-> listed, row |-> row, in_positions |-> in_positions,
     in_selected |-> in_selected, available_liquidity |-> available_liquidity,
     strategy |-> strategy, resp_ok |-> resp_ok,
     \* client.merge_positions returns, and the shares the chain is behind
     \* the local positions
     merge_ok |-> TRUE, raw_lag |-> 0]

\* the arguments of get_buy_sell_amount: positions short, flat and long up
\* to MaxHeld, rows whose trade_size is below, at and above min_size and
\* whose max_size is below and above trade_size
MaxHeld == 12

SizeInputs ==
    {[position |-> position,
      row |-> [Row(100, trade_size, max_size, 10) EXCEPT !.min_size = min_size],
      force_sell |-> force_sell] :
        position \in -2..MaxHeld, trade_size \in {3, 5, 10}, max_size \in {4, 8, 12},
        min_size \in {5, 10}, force_sell \in BOOLEAN}

\* the inputs of a pass: a listed market in good standing under each row,
\* one that is held but no longer selected, one short of liquidity, one the
\* exchange refuses orders for, and one get_enhanced_market_row does not know
PassInputs ==
    {PassInput(TRUE, row, TRUE, TRUE, AmpleLiquidity, s, TRUE) :
        row \in MarketRows, s \in StrategyOutcomes}
    \cup {PassInput(TRUE, BaseRow, TRUE, FALSE, AmpleLiquidity,
                    [t \in Tokens |-> Quote(4237, 4462)], TRUE)}
    \cup {PassInput(TRUE, BaseRow, TRUE, TRUE, NoLiquidity,
                    [t \in Tokens |-> Quote(4237, 4462)], TRUE)}
    \cup {PassInput(TRUE, BaseRow, TRUE, TRUE, AmpleLiquidity, s, FALSE) :
        s \in StrategyOutcomes}
    \cup {PassInput(FALSE, BaseRow, FALSE, FALSE, NoLiquidity, [t \in Tokens |-> Raises], FALSE)}

\* the inputs of the passes that requote against an open order: a tick of
\* 0.001 and of 0.01, a max_size the position reaches, quotes in and out of
\* the price band, an exchange that accepts or refuses
QuotePassInputs ==
    {PassInput(TRUE, row, TRUE, TRUE, AmpleLiquidity, [t \in Tokens |-> q], ok) :
        row \in {Row(10, 10, 100, 10), Row(100, 10, 100, 10), Row(10, 10, 20, 10)},
        q \in {Quote(4237, 4462), Quote(8962, 9187)},
        ok \in BOOLEAN}

\* the agent's open order on a token: [side, size, price]
OwnOrder(side, size, price) == [side |-> side, size |-> size, price |-> price]

\* open orders at, one tick from, and far from the quotes above
OwnOrders ==
    { OwnOrder("buy", 10, 4240), OwnOrder("buy", 10, 4230), OwnOrder("buy", 30, 4204),
      OwnOrder("sell", 20, 4460), OwnOrder("sell", 20, 4600) }

\* books for the stop-loss: a spread of 0.02 and a spread of exactly 0.04,
\* both with the mid price far below a position bought at 0.50, and a book
\* whose mid price is 0.50
RiskSnapshots ==
    { [bids |-> <<Level(4000, 100)>>, asks |-> <<Level(4200, 80)>>],
      [bids |-> <<Level(4200, 100)>>, asks |-> <<Level(4600, 80)>>],
      [bids |-> <<Level(4200, 100)>>, asks |-> <<Level(5800, 80)>>] }

\* the inputs of the passes around a stop-loss
RiskPassInputs ==
    {PassInput(TRUE, BaseRow, TRUE, TRUE, AmpleLiquidity, [t \in Tokens |-> q], TRUE) :
        q \in {Quote(4237, 4462), Raises}}

\* the seconds between two readings of the clock: 45 minutes
ClockStep == 2700

\* the inputs of the passes whose orders the exchange accepts or refuses
OrderPassInputs ==
    {PassInput(TRUE, BaseRow, TRUE, TRUE, AmpleLiquidity,
               [t \in Tokens |-> Quote(4237, 4462)], ok) : ok \in BOOLEAN}

\* the inputs of the passes that requote as the strategy's quotes move and
\* the position reaches max_size
ExchangePassInputs ==
    {PassInput(TRUE, row, TRUE, TRUE, AmpleLiquidity, [t \in Tokens |-> q], ok) :
        row \in {BaseRow, Row(100, 10, 20, 10)},
        q \in {Quote(4237, 4462), Quote(4937, 5162)},
        ok \in BOOLEAN}

\* the passes that may merge: the merge call succeeds or fails, the chain
\* holds what the local positions say or 10 shares less
MergePassInputs ==
    {[PassInput(TRUE, BaseRow, TRUE, TRUE, AmpleLiquidity,
                [t \in Tokens |-> Quote(4237, 4462)], TRUE)
        EXCEPT !.merge_ok = ok, !.raw_lag = lag] :
        ok \in BOOLEAN, lag \in {0, 10}}

MergeFillSizes == {10, 25}

\* passes in which the strategy raises for the first token, for the second
\* (after a buy on the first was placed), or for neither
ContainPassInputs ==
    {PassInput(TRUE, BaseRow, TRUE, TRUE, AmpleLiquidity, s, TRUE) :
        s \in {[t \in Tokens |-> Raises],
               [T1 |-> Quote(4237, 4462), T2 |-> Raises],
               [t \in Tokens |-> Quote(4237, 4462)]}}

\* the book the passes on the exchange read: a mid price of 0.50
ExchangeSnapshots ==
    { [bids |-> <<Level(4200, 100)>>, asks |-> <<Level(5800, 80)>>] }

\* an "order" message of the user channel
OrderRow(id, asset_id, side, type, original_size, size_matched, price) ==
    [event_type |-> "order", id |-> id, asset_id |-> asset_id, side |-> side,
     type |-> type, original_size |-> original_size,
     size_matched |-> size_matched, price |-> price]

\* the order messages about the agent's orders on T1: of 10 shares, 4 of
\* them matched
OrderRows ==
    {OrderRow(id, "T1", side, type, 10, 4, 4200) :
        id \in OrderIds, side \in Sides, type \in EventTypes}

\* the order messages the scheduler sees: about buys of 10 shares on T1,
\* matched in full
SchedOrderRows ==
    {OrderRow(id, "T1", "buy", type, 10, 10, 4200) : id \in OrderIds, type \in EventTypes}

\* the PLACEMENT messages of the sells a stop-loss submits
RiskOrderRows ==
    {OrderRow(id, "T1", "sell", "PLACEMENT", 10, 0, 4200) : id \in OrderIds}

\* the largest open size the messages add up to
MaxOpenSize == 20

\* a row of client.get_all_orders()
OpenOrder(asset_id, side, price, original_size, size_matched) ==
    [asset_id |-> asset_id, side |-> side, price |-> price,
     original_size |-> original_size, size_matched |-> size_matched]

\* what client.get_all_orders() answers
ServerOrders ==
    LET b == OpenOrder("T1", "BUY", 4200, 10, 4)
        s == OpenOrder("T1", "SELL", 4600, 10, 0)
    IN  { <<>>, <<b>>, <<b, s>>, <<b, b>>, <<b, b, s>>, <<s, s, b>>,
          <<b, OpenOrder("T2", "SELL", 5800, 10, 0)>> }

\* trade IDs of the user channel
TradeIds == {1, 2, 3}

\* a "trade" message of the user channel, of 10 shares at 0.50.  maker says
\* whose order the agent's was: "taker", or the one maker order of the agent
\* among maker_orders, with the taker's outcome ("maker_same") or with the
\* other outcome ("maker_other"), matched for 5 shares at 0.40
TradeRow(id, asset_id, side, status, maker) ==
    [event_type |-> "trade", market |-> "m1", id |-> id, asset_id |-> asset_id,
     side |-> side, status |-> status, maker |-> maker, size |-> 10, price |-> 5000,
     matched_amount |-> 5, maker_price |-> 4000]

TradeStatuses == {"MATCHED", "CONFIRMED", "MINED", "FAILED"}

\* in trades 1 and 2 the agent buys T1 as a taker; in trade 3 T1 is sold,
\* by the agent as a taker or to a maker order of the agent's
TradeRows ==
    {TradeRow(id, "T1", "buy", st, "taker") : id \in {1, 2}, st \in TradeStatuses}
    \cup {TradeRow(3, "T1", "sell", st, mk) :
              st \in TradeStatuses, mk \in {"taker", "maker_same", "maker_other"}}

\* a row of client.get_all_positions()
PosRow(asset, size, avgPrice) == [asset |-> asset, size |-> size, avgPrice |-> avgPrice]

\* the trades whose entries may go stale: a buy of T1 as a taker, and a sale
\* matched against the agent's maker order
StaleTradeRows ==
    {TradeRow(1, "T1", "buy", st, "taker") : st \in TradeStatuses}
    \cup {TradeRow(3, "T1", "sell", st, "maker_same") : st \in TradeStatuses}

\* what client.get_all_positions() answers
ServerPositions ==
    { {PosRow("T1", 20, 4500)},
      {PosRow("T1", 20, 4500), PosRow("T2", 5, 6000)} }

\* the seconds between two readings of the clock around a fill
FillClockSteps == {8}

MaxSeconds == 16

\* fills a run of the user channel sees at most
MaxFills == 2

\* prices of the fills that build the position a pass finds
TradeFillPrices == {5000}

\* ------------------------------------------------------------------------
\* State
\* ------------------------------------------------------------------------

VARIABLES
    inflight,          \* TaskScheduler._inflight: the markets with a live run_task
    tasks,             \* per market, the run_task coroutines spawned and not yet ended
    orders_in_flight,  \* per market, the order IDs submitted and not yet acknowledged
    exch_orders,       \* the exchange's accepted orders: order ID -> market
    ended,             \* per market, how its last pass ended: "none", "ok", "raise"
    sched_last,        \* the scheduler operation just performed, with the state it found
    positions,         \* global_state.positions: token -> [size, avgPrice], a dict
    trade_count,       \* the trade fills applied so far
    pos_last,          \* the set_position call just made, with the position it found
    order_books,       \* OrderBooks._order_books: token -> [bids, asks, orders]
    book_last,         \* the OrderBooks operation just performed, with what it returned
    order_book_data,   \* global_state.order_book_data: token -> [bids, asks], a dict
    orders,            \* global_state.orders: token -> side -> [price, size], a dict
    feed_last,         \* the market-data operation just performed, with what it returned
    journal,           \* positions/<market>.json: the sleep_till it holds, or NoFile
    now,               \* the clock, in seconds
    trade_last,        \* the perform_trade pass just run: what it found and the calls it made
    performing,        \* global_state.performing: "token_side" -> the trade IDs matched, not yet mined
    performing_timestamps,  \* global_state.performing_timestamps: "token_side" -> trade ID -> time added
    last_trade_update, \* global_state.last_trade_update: token -> time of the last set_position, a dict
    user_last,         \* the user-data or reconciliation operation just performed
    exchange           \* the exchange: the agent's open orders and the order messages not yet delivered

sched_vars == <<inflight, tasks, orders_in_flight, exch_orders, ended, sched_last>>

pos_vars == <<positions, trade_count, pos_last>>

book_vars == <<order_books, book_last>>

feed_vars == <<order_book_data, orders, feed_last>>

trade_vars == <<journal, now, trade_last>>

user_vars == <<performing, performing_timestamps, last_trade_update, user_last>>

vars == <<sched_vars, pos_vars, book_vars, feed_vars, trade_vars, user_vars, exchange>>

\* ------------------------------------------------------------------------
\* The operation just performed
\* ------------------------------------------------------------------------

\* Each part of the program records the operation it has just performed in
\* its *_last variable; a step of another part sets it back to these values.

SortedDict == [k \in {} |-> 0]

\* the value a *_last holds for an operation that returns nothing
NoRet == [bids |-> SortedDict, asks |-> SortedDict]

NoSchedLast ==
    [op |-> "init", market |-> "m1", outcome |-> "none", id |-> 0,
     inflight |-> {}, tasks |-> [m \in Markets |-> 0],
     oif |-> [m \in Markets |-> {}]]

NoPosLast ==
    [op |-> "init", token |-> "T1", side |-> "buy", size |-> 0, price |-> 0,
     had |-> FALSE, prev |-> [size |-> 0, avgPrice |-> [n |-> 0, d |-> 1]],
     raised |-> FALSE]

NoBookLast == [op |-> "init", token |-> "T1", ret |-> NoRet]

NoFeedLast == [op |-> "init", token |-> "T1", raised |-> FALSE, ret |-> NoRet]

\* positions/<market>.json does not exist
NoFile == -1

NoTradeLast ==
    [op |-> "init", market |-> "m1", row |-> BaseRow, positions |-> <<>>,
     orders |-> <<>>, journal |-> [m \in Markets |-> NoFile], now |-> 0,
     sell_only |-> FALSE, strategy |-> [t \in Tokens |-> Raises],
     sends |-> <<>>, calls |-> <<>>,
     branch |-> [t \in Tokens |-> "not_run"], aborted |-> FALSE,
     merge_ok |-> TRUE]

NoUserLast ==
    [op |-> "init", avgOnly |-> FALSE, server |-> {}, row |-> <<>>,
     prev |-> 0, calls |-> <<>>, raised |-> FALSE]

\* the records of the parts other than part are set back
OnlyLast(part) ==
    /\ IF part = "sched" THEN TRUE ELSE sched_last' = NoSchedLast
    /\ IF part = "pos" THEN TRUE ELSE pos_last' = NoPosLast
    /\ IF part = "book" THEN TRUE ELSE book_last' = NoBookLast
    /\ IF part = "feed" THEN TRUE ELSE feed_last' = NoFeedLast
    /\ IF part = "trade" THEN TRUE ELSE trade_last' = NoTradeLast
    /\ IF part = "user" THEN TRUE ELSE user_last' = NoUserLast

\* what the operations of each part leave alone
sched_frame ==
    /\ OnlyLast("sched")
    /\ UNCHANGED <<exchange, positions, trade_count, order_books, order_book_data, orders,
                   journal, now, performing, performing_timestamps, last_trade_update>>

pos_frame ==
    /\ OnlyLast("pos")
    /\ UNCHANGED <<exchange, inflight, tasks, orders_in_flight, exch_orders, ended,
                   order_books, order_book_data, orders, journal, now,
                   performing, performing_timestamps>>

book_frame ==
    /\ OnlyLast("book")
    /\ UNCHANGED <<exchange, inflight, tasks, orders_in_flight, exch_orders, ended,
                   positions, trade_count, order_book_data, orders, journal, now,
                   performing, performing_timestamps, last_trade_update>>

feed_frame ==
    /\ OnlyLast("feed")
    /\ UNCHANGED <<exchange, inflight, tasks, orders_in_flight, exch_orders, ended,
                   positions, trade_count, order_books, journal, now,
                   performing, performing_timestamps, last_trade_update>>

trade_frame ==
    /\ OnlyLast("trade")
    /\ UNCHANGED <<inflight, tasks, ended, positions, trade_count, order_books,
                   order_book_data, now, performing, performing_timestamps,
                   last_trade_update>>

user_frame ==
    /\ OnlyLast("user")
    /\ UNCHANGED <<ended, order_books, order_book_data, journal, now>>

\* ------------------------------------------------------------------------
\* orders_in_flight (trading_bot/orders_in_flight.py)
\* ------------------------------------------------------------------------

\* get_orders_in_flight(market): the IDs registered for the market
get_orders_in_flight(oif, market) == oif[market]

\* set_order_in_flight(market, orderID, ...): register a submitted order
set_order_in_flight(oif, market, id) == [oif EXCEPT ![market] = @ \cup {id}]

\* clear_order_in_flight(id): retire the ID wherever it is registered
clear_order_in_flight(oif, id) == [m \in DOMAIN oif |-> oif[m] \ {id}]

\* ------------------------------------------------------------------------
\* TaskScheduler (trading_bot/task_scheduler.py)
\* ------------------------------------------------------------------------

\* schedule_task without the early return on a market already in _inflight
schedule_task_NoInflightCheck(infl, tsk, oif, market) ==
    IF Cardinality(get_orders_in_flight(oif, market)) > 0
    THEN [inflight |-> infl, tasks |-> tsk]
    ELSE [inflight |-> infl \cup {market},
          tasks    |-> [tsk EXCEPT ![market] = @ + 1]]

\* schedule_task that marks the market in flight before it looks at the
\* orders in flight
schedule_task_AddBeforeOrdersCheck(infl, tsk, oif, market) ==
    IF market \in infl
    THEN [inflight |-> infl, tasks |-> tsk]
    ELSE IF Cardinality(get_orders_in_flight(oif, market)) > 0
         THEN [inflight |-> infl \cup {market}, tasks |-> tsk]
         ELSE [inflight |-> infl \cup {market},
               tasks    |-> [tsk EXCEPT ![market] = @ + 1]]

\* schedule_task(market, task): lines 21-22 drop the call when the market is
\* already in _inflight; lines 24-27 drop it when the market has orders in
\* flight; lines 29-45 add the market and spawn run_task.  The lock of line 24
\* is never held across an await, so the call runs without yielding.
schedule_task(infl, tsk, oif, market) ==
    IF market \in infl
    THEN [inflight |-> infl, tasks |-> tsk]
    ELSE IF Cardinality(get_orders_in_flight(oif, market)) > 0
         THEN [inflight |-> infl, tasks |-> tsk]
         ELSE [inflight |-> infl \cup {market},
               tasks    |-> [tsk EXCEPT ![market] = @ + 1]]

\* run_task that releases the market only when the task returns normally
run_task_end_ReleaseOnSuccessOnly(infl, market, outcome) ==
    IF outcome = "ok" THEN infl \ {market} ELSE infl

\* run_task whose finally clause leaves the market in _inflight
run_task_end_KeepsMark(infl, market, outcome) == infl

\* the end of run_task: the except clause swallows the exception and the
\* finally clause removes the market, however the task ended
run_task_end(infl, market, outcome) == infl \ {market}

\* the state a scheduler operation found, kept for the next state to refer to
Found(op, market, outcome, id) ==
    [op       |-> op,
     market   |-> market,
     outcome  |-> outcome,
     id       |-> id,
     inflight |-> inflight,
     tasks    |-> tasks,
     oif      |-> orders_in_flight]

\* process_market_data (book, price_change) and process_user_data (trade
\* MATCHED, CONFIRMED) end in Scheduler.schedule_task(market, perform_trade)
Schedule(src, m) ==
    LET r == schedule_task(inflight, tasks, orders_in_flight, m) IN
    /\ inflight' = r.inflight
    /\ tasks' = r.tasks
    /\ sched_last' = Found("schedule", m, src, 0)
    /\ UNCHANGED <<orders_in_flight, exch_orders, ended>>
    /\ sched_frame

\* the IDs the exchange hands to the next k accepted orders
FreshIds(k) ==
    {i \in OrderIds : /\ i > Cardinality(DOMAIN exch_orders)
                      /\ i <= Cardinality(DOMAIN exch_orders) + k}

\* run_task: the spawned task runs (here any task: it has k orders accepted,
\* each registered in flight, and returns or raises), then the market is
\* released
RunTask(m, outcome, k) ==
    /\ tasks[m] > 0
    /\ Cardinality(DOMAIN exch_orders) + k <= MaxOrderId
    /\ LET ids == FreshIds(k) IN
       /\ exch_orders' = [i \in DOMAIN exch_orders \cup ids |->
                            IF i \in ids THEN m ELSE exch_orders[i]]
       /\ orders_in_flight' = [orders_in_flight EXCEPT ![m] = @ \cup ids]
    /\ inflight' = run_task_end(inflight, m, outcome)
    /\ tasks' = [tasks EXCEPT ![m] = @ - 1]
    /\ ended' = [ended EXCEPT ![m] = outcome]
    /\ sched_last' = Found("run_task", m, outcome, 0)
    /\ sched_frame

InitSched ==
    /\ inflight = {}
    /\ tasks = [m \in Markets |-> 0]
    /\ orders_in_flight = [m \in Markets |-> {}]
    /\ exch_orders = <<>>
    /\ ended = [m \in Markets |-> "none"]
    /\ sched_last = NoSchedLast



\* ------------------------------------------------------------------------
\* Exact fractions, for average prices
\* ------------------------------------------------------------------------

Abs(x) == IF x < 0 THEN -x ELSE x

RECURSIVE Gcd(_, _)
Gcd(a, b) == IF b = 0 THEN a ELSE Gcd(b, a % b)

\* the fraction n/d in lowest terms with a positive denominator (d # 0)
Frac(n, d) ==
    LET g == Gcd(Abs(n), Abs(d))
        s == IF d < 0 THEN -1 ELSE 1
    IN [n |-> s * (n \div g), d |-> s * (d \div g)]

FracInt(k) == [n |-> k, d |-> 1]

\* ------------------------------------------------------------------------
\* Positions (trading_bot/data_utils.py)
\* ------------------------------------------------------------------------

\* get_position(token): the stored position, or {size 0, avgPrice 0.0}
get_position(pos, token) ==
    IF token \in DOMAIN pos THEN pos[token]
    ELSE [size |-> 0, avgPrice |-> FracInt(0)]

\* the blended average of line 143:
\* (prev_price * prev_size + price * size) / (prev_size + size)
Blend(prev_price, prev_size, price, size) ==
    Frac(prev_price.n * prev_size + price * size * prev_price.d,
         prev_price.d * (prev_size + size))

\* avgPrice_new with the two weights of the blend exchanged
avgPrice_new_WeightsSwapped(prev_price, prev_size, price, size) ==
    IF size > 0
    THEN IF prev_size = 0 THEN FracInt(price)
         ELSE Frac(prev_price.n * size + price * prev_size * prev_price.d,
                   prev_price.d * (prev_size + size))
    ELSE prev_price

\* lines 137-149: avgPrice_new for a signed size (size > 0 a buy, size < 0 a
\* sell), for a token that has a stored position
avgPrice_new(prev_price, prev_size, price, size) ==
    IF size > 0
    THEN IF prev_size = 0 THEN FracInt(price)
         ELSE Blend(prev_price, prev_size, price, size)
    ELSE prev_price

\* set_position(token, side, size, price): the positions after the call, and
\* whether it raised.  Line 143 divides by prev_size + size, which is zero when
\* a buy closes a negative position exactly: ZeroDivisionError, and the
\* position is left as it was.
set_position(pos, token, side, size, price) ==
    LET signed == IF side = "sell" THEN -size ELSE size IN
    IF token \in DOMAIN pos
    THEN LET prev_price == pos[token].avgPrice
             prev_size  == pos[token].size
         IN IF signed > 0 /\ prev_size # 0 /\ prev_size + signed = 0
            THEN [positions |-> pos, raised |-> TRUE]
            ELSE [positions |->
                    [pos EXCEPT ![token] =
                        [size     |-> prev_size + signed,
                         avgPrice |-> avgPrice_new(prev_price, prev_size, price, signed)]],
                  raised |-> FALSE]
    ELSE [positions |->
            [t \in DOMAIN pos \cup {token} |->
                IF t = token THEN [size |-> signed, avgPrice |-> FracInt(price)]
                ELSE pos[t]],
          raised |-> FALSE]

\* global_state.last_trade_update[token] = time.time(), line 127 of set_position
touch(ltu, token, clock) ==
    [t \in DOMAIN ltu \cup {token} |-> IF t = token THEN clock ELSE ltu[t]]

\* process_user_data, a MATCHED trade: set_position(token, side, size, price)
SetPosition(token, side, size, price) ==
    /\ trade_count < MaxTrades
    /\ LET r == set_position(positions, token, side, size, price) IN
       /\ positions' = r.positions
       /\ pos_last' = [op     |-> "set_position",
                       token  |-> token,
                       side   |-> side,
                       size   |-> size,
                       price  |-> price,
                       had    |-> token \in DOMAIN positions,
                       prev   |-> get_position(positions, token),
                       raised |-> r.raised]
    /\ last_trade_update' = touch(last_trade_update, token, now)
    /\ trade_count' = trade_count + 1
    /\ pos_frame

InitPos ==
    /\ positions = <<>>
    /\ trade_count = 0
    /\ pos_last = NoPosLast

\* ------------------------------------------------------------------------
\* Float price keys
\* ------------------------------------------------------------------------

\* A price held as a Python float: the double u units in the last place
\* above the double nearest to p/10000. float("0.42") is [p |-> 4200, u |-> 0].
float(p) == [p |-> p, u |-> 0]

\* 1 - price in IEEE-754 doubles, in units in the last place off the
\* nearest decimal: 1 - 0.42 is 0.5800000000000001, 1 - 0.5800000000000001
\* is 0.41999999999999993, 1 - 0.58 is 0.42000000000000004 and
\* 1 - 0.42000000000000004 is 0.58. The differences of 0.39, 0.40, 0.4204,
\* 0.5796, 0.60 and 0.61 from 1 are exact.
OneMinusUlps(k) ==
    CASE k.p = 4200 /\ k.u = 0  -> 1
      [] k.p = 4200 /\ k.u = -1 -> 1
      [] k.p = 4200 /\ k.u = 1  -> 0
      [] k.p = 5800 /\ k.u = 0  -> 1
      [] k.p = 5800 /\ k.u = 1  -> -1
      [] OTHER -> 0

OneMinus(k) == [p |-> 10000 - k.p, u |-> OneMinusUlps(k)]

\* the multiple of step nearest to x, a tie going to the even multiple
RoundTo(x, step) ==
    LET lo == (x \div step) * step
        r  == x - lo
    IN  IF 2 * r < step THEN lo
        ELSE IF 2 * r > step THEN lo + step
        ELSE IF (lo \div step) % 2 = 0 THEN lo ELSE lo + step

\* round(price, 3): the double nearest to the three-decimal price
round3(k) == float(RoundTo(k.p, 10))

\* ------------------------------------------------------------------------
\* Ladders: SortedDict price -> size
\* ------------------------------------------------------------------------

SetItem(d, k, s) == [x \in DOMAIN d \cup {k} |-> IF x = k THEN s ELSE d[x]]

DelItem(d, k) == [x \in DOMAIN d \ {k} |-> d[x]]

NoOrder == [price |-> float(0), size |-> 0]

NoOrders == [buy |-> NoOrder, sell |-> NoOrder]

OppositeSide(side) == IF side = "sell" THEN "buy" ELSE "sell"

\* ------------------------------------------------------------------------
\* order_books.py: OrderBook and the OrderBooks registry
\* ------------------------------------------------------------------------

\* OrderBook.__init__
OrderBook == [bids |-> SortedDict, asks |-> SortedDict, orders |-> NoOrders]

\* the loops of OrderBook.process_book_data: a later entry overwrites an
\* earlier one that rounds to the same price
RECURSIVE OB_load(_)
OB_load(entries) ==
    IF entries = <<>> THEN SortedDict
    ELSE LET n == Len(entries)
             e == entries[n]
         IN  SetItem(OB_load(SubSeq(entries, 1, n - 1)),
                     round3(float(e.price)), e.size)

\* rev_price of OrderBook._sync_reverse_token
rev_price(price) == round3(OneMinus(price))

\* one loop of _sync_reverse_token: the ladder of the other token's
\* opposite side. Distinct prices may land on one reversed price; the
\* larger price is written last.
RECURSIVE OB_reverse(_)
OB_reverse(d) ==
    IF DOMAIN d = {} THEN SortedDict
    ELSE LET k == CHOOSE x \in DOMAIN d :
                     \A y \in DOMAIN d : y.p < x.p \/ (y.p = x.p /\ y.u <= x.u)
         IN  SetItem(OB_reverse(DelItem(d, k)), rev_price(k), d[k])

\* OrderBook._sync_reverse_token
OB_sync_reverse_token(obs, token) ==
    LET r == REVERSE_TOKENS[token] IN
    [obs EXCEPT ![r].bids = OB_reverse(obs[token].asks),
                ![r].asks = OB_reverse(obs[token].bids)]

\* OrderBook.process_book_data
OB_process_book_data(obs, token, json_data) ==
    OB_sync_reverse_token(
        [obs EXCEPT ![token].bids = OB_load(json_data.bids),
                    ![token].asks = OB_load(json_data.asks)],
        token)

\* OrderBook.process_price_change
OB_process_price_change(obs, token, book_side, price_level, new_size) ==
    LET k    == round3(float(price_level))
        book == obs[token][book_side]
        upd  == IF new_size = 0 THEN DelItem(book, k) ELSE SetItem(book, k, new_size)
    IN  OB_sync_reverse_token([obs EXCEPT ![token][book_side] = upd], token)

\* OrderBook.set_order
OB_set_order(obs, token, side, size, price) ==
    LET o == [price |-> round3(float(price)), size |-> size]
        r == REVERSE_TOKENS[token]
    IN  [obs EXCEPT ![token].orders[side] = o,
                    ![r].orders[OppositeSide(side)] = o]

exclude_order_KeepsEmptyLevel(ladder, order) ==
    IF order.size > 0
    THEN LET k == round3(order.price) IN
         IF k \in DOMAIN ladder
         THEN LET new_size == ladder[k] - order.size IN
              IF new_size < 0 THEN DelItem(ladder, k)
              ELSE SetItem(ladder, k, new_size)
         ELSE ladder
    ELSE ladder

\* one side of OrderBooks.get_order_book_exclude_self: the copy of a ladder
\* with the own order of that side taken out
exclude_order(ladder, order) ==
    IF order.size > 0
    THEN LET k == round3(order.price) IN
         IF k \in DOMAIN ladder
         THEN LET new_size == ladder[k] - order.size IN
              IF new_size <= 0 THEN DelItem(ladder, k)
              ELSE SetItem(ladder, k, new_size)
         ELSE ladder
    ELSE ladder

\* OrderBooks.get_order_book_exclude_self: the value returned, and the book
\* as the call leaves it (the ladders are copied before they are changed)
OB_get_order_book_exclude_self(obs, token) ==
    [ret |-> [bids |-> exclude_order(obs[token].bids, obs[token].orders.buy),
              asks |-> exclude_order(obs[token].asks, obs[token].orders.sell)],
     order_books |-> obs]

\* a "book" message for token: OrderBooks.get(token).process_book_data(json_data)
OBProcessBookData(token, json_data) ==
    /\ order_books' = OB_process_book_data(order_books, token, json_data)
    /\ book_last' = [op |-> "process_book_data", token |-> token, ret |-> NoRet]
    /\ book_frame

\* one entry of a "price_change" message
OBProcessPriceChange(token, book_side, price_level, new_size) ==
    /\ order_books' = OB_process_price_change(order_books, token, book_side,
                                              price_level, new_size)
    /\ book_last' = [op |-> "process_price_change", token |-> token, ret |-> NoRet]
    /\ book_frame

\* OrderBooks.get(token).set_order(side, size, price)
OBSetOrder(token, side, size, price) ==
    /\ order_books' = OB_set_order(order_books, token, side, size, price)
    /\ book_last' = [op |-> "set_order", token |-> token, ret |-> NoRet]
    /\ book_frame

\* OrderBooks.get_order_book_exclude_self(token)
OBGetOrderBookExcludeSelf(token) ==
    /\ LET r == OB_get_order_book_exclude_self(order_books, token) IN
       /\ order_books' = r.order_books
       /\ book_last' = [op |-> "get_order_book_exclude_self", token |-> token,
                        ret |-> r.ret]
    /\ book_frame

InitBook ==
    /\ order_books = [t \in Tokens |-> OrderBook]
    /\ book_last = NoBookLast

NextBook ==
    \/ \E token \in Tokens, json_data \in BookSnapshots :
          OBProcessBookData(token, json_data)
    \/ \E token \in Tokens, book_side \in {"bids", "asks"},
          price_level \in ChangePrices, new_size \in ChangeSizes :
          OBProcessPriceChange(token, book_side, price_level, new_size)
    \/ \E token \in Tokens, side \in Sides, size \in OrderSizes, price \in OrderPrices :
          OBSetOrder(token, side, size, price)
    \/ \E token \in Tokens : OBGetOrderBookExcludeSelf(token)

\* ------------------------------------------------------------------------
\* data_processing.py: global_state.order_book_data
\* ------------------------------------------------------------------------

\* the dict comprehensions of process_book_data: {float(price): float(size)}
RECURSIVE load_entries(_)
load_entries(entries) ==
    IF entries = <<>> THEN SortedDict
    ELSE LET n == Len(entries)
             e == entries[n]
         IN  SetItem(load_entries(SubSeq(entries, 1, n - 1)), float(e.price), e.size)

\* the dict comprehensions of sync_order_book_data_for_reverse_token:
\* {1 - price: size} over a ladder in ascending order of price
RECURSIVE reverse_ladder(_)
reverse_ladder(d) ==
    IF DOMAIN d = {} THEN SortedDict
    ELSE LET k == CHOOSE x \in DOMAIN d :
                     \A y \in DOMAIN d : y.p < x.p \/ (y.p = x.p /\ y.u <= x.u)
         IN  SetItem(reverse_ladder(DelItem(d, k)), OneMinus(k), d[k])

\* a dict with d[k] = v
SetKey(d, k, v) == [x \in DOMAIN d \cup {k} |-> IF x = k THEN v ELSE d[x]]

sync_order_book_data_for_reverse_token(obd, updated_token) ==
    SetKey(obd, REVERSE_TOKENS[updated_token],
           [bids |-> reverse_ladder(obd[updated_token].asks),
            asks |-> reverse_ladder(obd[updated_token].bids)])

process_book_data(obd, token, json_data) ==
    sync_order_book_data_for_reverse_token(
        SetKey(obd, token, [bids |-> load_entries(json_data.bids),
                            asks |-> load_entries(json_data.asks)]),
        token)

\* process_price_change; order_book_data[token] raises KeyError for a token
\* that has had no book yet
process_price_change(obd, token, side, price_level, new_size) ==
    IF token \notin DOMAIN obd
    THEN [order_book_data |-> obd, raised |-> TRUE]
    ELSE LET book == obd[token][side]
             upd  == IF new_size = 0 THEN DelItem(book, price_level)
                     ELSE SetItem(book, price_level, new_size)
         IN  [order_book_data |->
                  sync_order_book_data_for_reverse_token(
                      [obd EXCEPT ![token][side] = upd], token),
              raised |-> FALSE]

\* data_utils.set_order: the token's entry becomes a dict with that side only
set_order(ords, token, side, size, price) ==
    SetKey(ords, token,
           [s \in {side} |-> [price |-> float(price), size |-> size]])

\* one side of global_state.get_order_book_exclude_self
gs_exclude_order(ladder, token_orders, side) ==
    IF side \in DOMAIN token_orders /\ token_orders[side].size > 0
    THEN LET k == token_orders[side].price IN
         IF k \in DOMAIN ladder
         THEN LET new_size == ladder[k] - token_orders[side].size IN
              IF new_size <= 0 THEN DelItem(ladder, k)
              ELSE SetItem(ladder, k, new_size)
         ELSE ladder
    ELSE ladder

\* global_state.get_order_book_exclude_self
get_order_book_exclude_self(obd, ords, token) ==
    IF token \notin DOMAIN obd THEN NoRet
    ELSE LET token_orders == IF token \in DOMAIN ords THEN ords[token] ELSE <<>> IN
         [bids |-> gs_exclude_order(obd[token].bids, token_orders, "buy"),
          asks |-> gs_exclude_order(obd[token].asks, token_orders, "sell")]

\* process_market_data, a "book" message
ProcessBookData(token, json_data) ==
    /\ order_book_data' = process_book_data(order_book_data, token, json_data)
    /\ feed_last' = [op |-> "process_book_data", token |-> token,
                     raised |-> FALSE, ret |-> NoRet]
    /\ UNCHANGED orders
    /\ feed_frame

\* process_market_data, one entry of a "price_change" message
ProcessPriceChange(token, side, price, size) ==
    /\ LET r == process_price_change(order_book_data, token, side, float(price), size) IN
       /\ order_book_data' = r.order_book_data
       /\ feed_last' = [op |-> "process_price_change", token |-> token,
                        raised |-> r.raised, ret |-> NoRet]
    /\ UNCHANGED orders
    /\ feed_frame

\* data_utils.set_order(token, side, size, price)
SetOrder(token, side, size, price) ==
    /\ orders' = set_order(orders, token, side, size, price)
    /\ feed_last' = [op |-> "set_order", token |-> token,
                     raised |-> FALSE, ret |-> NoRet]
    /\ UNCHANGED order_book_data
    /\ feed_frame

\* global_state.get_order_book_exclude_self(token)
GetOrderBookExcludeSelf(token) ==
    /\ feed_last' = [op |-> "get_order_book_exclude_self", token |-> token,
                     raised |-> FALSE,
                     ret |-> get_order_book_exclude_self(order_book_data, orders, token)]
    /\ UNCHANGED <<order_book_data, orders>>
    /\ feed_frame

InitFeed ==
    /\ order_book_data = <<>>
    /\ orders = <<>>
    /\ feed_last = NoFeedLast

NextFeed ==
    \/ \E token \in Tokens, json_data \in BookSnapshots :
          ProcessBookData(token, json_data)
    \/ \E token \in Tokens, side \in {"bids", "asks"},
          price \in ChangePrices, size \in ChangeSizes :
          ProcessPriceChange(token, side, price, size)
    \/ \E token \in Tokens, side \in Sides, size \in OrderSizes, price \in OrderPrices :
          SetOrder(token, side, size, price)
    \/ \E token \in Tokens : GetOrderBookExcludeSelf(token)

\* ------------------------------------------------------------------------
\* configuration.py: TradingConfig (prices in 1/10000, ratios in percent)
\* ------------------------------------------------------------------------

SELL_ONLY_THRESHOLD == 80

MIN_PRICE_LIMIT == 1000

MAX_PRICE_LIMIT == 9000

PRICE_PRECISION_LIMIT == 9900

BUY_PRICE_DIFF_THRESHOLD == 10

SELL_PRICE_DIFF_THRESHOLD == 10

SIZE_DIFF_PERCENTAGE == 10

MIN_MERGE_SIZE == 20

VOLATILITY_EXIT_THRESHOLD == 150

STOP_LOSS_THRESHOLD == -4

STOP_LOSS_SPREAD_THRESHOLD == 400

STOP_LOSS_SLEEP_PERIOD_MINS == 90

STALE_TRADE_TIMEOUT == 15

\* the seconds after a local trade update in which update_positions leaves
\* the size alone (line 36 of data_utils.py)
TRADE_UPDATE_GRACE == 5

\* ------------------------------------------------------------------------
\* trading_utils.py: the book as the engine reads it
\* ------------------------------------------------------------------------

\* Python's None, where a price is expected
None == [p |-> -1, u |-> 0]

MaxKey(S) == CHOOSE x \in S : \A y \in S : y.p < x.p \/ (y.p = x.p /\ y.u <= x.u)

MinKey(S) == CHOOSE x \in S : \A y \in S : y.p > x.p \/ (y.p = x.p /\ y.u >= x.u)

\* the loop of find_best_price_with_size over the levels left, from the top
\* of the ladder down: the price of the first level whose size is more than
\* min_size, None when the levels run out
RECURSIVE first_with_size(_, _, _, _)
first_with_size(price_dict, left, min_size, reverse) ==
    IF left = {} THEN None
    ELSE LET price == IF reverse THEN MaxKey(left) ELSE MinKey(left) IN
         IF price_dict[price] > min_size THEN price
         ELSE first_with_size(price_dict, left \ {price}, min_size, reverse)

find_best_price_with_size_AtLeast(price_dict, min_size, reverse) ==
    LET big == {k \in DOMAIN price_dict : price_dict[k] >= min_size}
        First(S) == IF S = {} THEN None
                    ELSE IF reverse THEN MaxKey(S) ELSE MinKey(S)
        best == First(big)
    IN  [best_price |-> best,
         best_size  |-> IF best = None THEN -1 ELSE price_dict[best],
         top_price  |-> First(DOMAIN price_dict)]

\* find_best_price_with_size: the first level from the top of the ladder
\* (top_price) and the first one holding more than min_size (best_price,
\* best_size; a size of -1 stands for None)
find_best_price_with_size(price_dict, min_size, reverse) ==
    LET best == first_with_size(price_dict, DOMAIN price_dict, min_size, reverse) IN
    [best_price |-> best,
     best_size  |-> IF best = None THEN -1 ELSE price_dict[best],
     top_price  |-> IF DOMAIN price_dict = {} THEN None
                    ELSE IF reverse THEN MaxKey(DOMAIN price_dict)
                    ELSE MinKey(DOMAIN price_dict)]

get_best_bid_ask_deets(obs, token, size) ==
    LET order_book == OB_get_order_book_exclude_self(obs, token).ret
        b == find_best_price_with_size(order_book.bids, size, TRUE)
        a == find_best_price_with_size(order_book.asks, size, FALSE)
    IN  [best_bid |-> b.best_price, best_bid_size |-> b.best_size,
         top_bid |-> b.top_price,
         best_ask |-> a.best_price, best_ask_size |-> a.best_size,
         top_ask |-> a.top_price]

\* ------------------------------------------------------------------------
\* trading.py: rounding to the market's tick
\* ------------------------------------------------------------------------

round_length_ThreeDecimals(tick_size) == 3

\* len(str(row['tick_size']).split(".")[1]): the decimals of the tick as
\* it is written, 0.1 -> 1, 0.01 -> 2, 0.001 -> 3
round_length(tick_size) ==
    CASE tick_size = 1000 -> 1
      [] tick_size = 100  -> 2
      [] tick_size = 10   -> 3
      [] OTHER            -> 4

RECURSIVE Pow10(_)
Pow10(n) == IF n <= 0 THEN 1 ELSE 10 * Pow10(n - 1)

\* round(x, ndigits) of a price
round(x, ndigits) == RoundTo(x, Pow10(4 - ndigits))

\* ------------------------------------------------------------------------
\* trading.py: sending orders
\* ------------------------------------------------------------------------

\* a call on global_state.client, as the exchange sees it
Call(fn, token, side, price, size) ==
    [fn |-> fn, token |-> token, side |-> side, price |-> price, size |-> size]

\* data_utils.get_order: the token's orders, a missing side filled in (and
\* written back when the token has an entry)
get_order(ords, token) ==
    IF token \in DOMAIN ords
    THEN LET filled == [s \in Sides |->
                          IF s \in DOMAIN ords[token] THEN ords[token][s] ELSE NoOrder]
         IN  [ret |-> filled, orders |-> [ords EXCEPT ![token] = filled]]
    ELSE [ret |-> NoOrders, orders |-> ords]

\* The prices p/1000 for which the double (p+1)/1000 less the double p/1000
\* is no more than the double 0.001; for every other p from 1 to 998 the
\* difference of the two doubles is 0.0010000000000000009 or more.
OneThousandthApart ==
    {1, 2, 3, 4, 5, 6, 7, 8, 10, 12, 14, 17, 21, 25, 29, 35, 42, 50, 58, 70, 85,
     101, 117, 140, 171, 203, 234, 281, 343, 406, 468, 562, 687, 812, 937}

\* abs(existing_price - order['price']) > threshold, in doubles.  The
\* subtraction of two prices is exact, so only a difference of exactly the
\* threshold depends on how the two prices and 0.001 are rounded to doubles;
\* that case is worked out for prices of three decimals.
price_diff_exceeds(existing_price, price, threshold) ==
    LET d   == Abs(existing_price.p - price)
        low == IF existing_price.p < price THEN existing_price.p ELSE price
    IN  CASE d # threshold \/ existing_price.u # 0 -> d > threshold
          [] /\ d = threshold /\ existing_price.u = 0
             /\ threshold = 10 /\ low % 10 = 0 -> (low \div 10) \notin OneThousandthApart

should_cancel_PriceOnly(existing, price, size, threshold) ==
    \/ (IF existing.price.p > 0
        THEN price_diff_exceeds(existing.price, price, threshold) ELSE TRUE)
    \/ existing.size = 0

\* should_cancel of send_buy_order and send_sell_order: the existing order
\* is too far from the new one in price (price_diff, infinite for an
\* existing price of 0) or in size (size_diff, infinite for an existing
\* size of 0), or there is none.  Sizes are whole numbers of shares, for
\* which size_diff > order['size'] * 0.1 is the same in doubles.
should_cancel(existing, price, size, threshold) ==
    \/ (IF existing.price.p > 0
        THEN price_diff_exceeds(existing.price, price, threshold) ELSE TRUE)
    \/ (IF existing.size > 0
        THEN Abs(existing.size - size) * 100 > size * SIZE_DIFF_PERCENTAGE ELSE TRUE)
    \/ existing.size = 0

\* the exchange accepts an order: it is open from now on, and the user
\* channel will carry its PLACEMENT
exchange_accept(ex, id, order, side) ==
    [open   |-> ex.open \cup {[id |-> id, token |-> order.token, side |-> side,
                               price |-> order.price, size |-> order.size]},
     events |-> Append(ex.events,
                       OrderRow(id, order.token, side, "PLACEMENT",
                                order.size, 0, order.price))]

\* the exchange cancels the open orders of a token, in the order it took
\* them: none of them is open any more, and the user channel will carry a
\* CANCELLATION for each
exchange_cancel(ex, token) ==
    LET gone == {o \in ex.open : o.token = token}
        ids  == SelectSeq([i \in 1..MaxOrderId |-> i],
                          LAMBDA i : \E o \in gone : o.id = i)
        row(i) == LET o == CHOOSE x \in gone : x.id = i IN
                  OrderRow(o.id, o.token, o.side, "CANCELLATION", o.size, 0, o.price)
    IN  [open   |-> ex.open \ gone,
         events |-> ex.events \o [k \in DOMAIN ids |-> row(ids[k])]]

handle_create_order_response_RegistersFailures(st, resp, order) ==
    [st EXCEPT !.oif = set_order_in_flight(st.oif, order.market, resp.orderID)]

\* handle_create_order_response: a successful response registers the
\* returned order ID in flight for the market; a failure is only logged
handle_create_order_response(st, resp, order) ==
    IF resp.success
    THEN [st EXCEPT !.oif = set_order_in_flight(st.oif, order.market, resp.orderID)]
    ELSE st

\* client.create_order followed by handle_create_order_response: an order
\* the exchange accepts gets its next ID
create_order(st, order, side, resp_ok) ==
    LET id       == Cardinality(DOMAIN st.exch) + 1
        accepted == resp_ok /\ id <= MaxOrderId
        resp     == [success |-> accepted, orderID |-> IF accepted THEN id ELSE 0]
        sent     == [st EXCEPT !.calls =
                        Append(@, Call("create_order", order.token, side,
                                       order.price, order.size))]
        answered == IF accepted
                    THEN [sent EXCEPT
                            !.exch = [i \in DOMAIN st.exch \cup {id} |->
                                        IF i = id THEN order.market ELSE st.exch[i]],
                            !.exchange = exchange_accept(@, id, order, side)]
                    ELSE sent
    IN  handle_create_order_response(answered, resp, order)

\* client.cancel_all_asset(token): the exchange cancels every open order of
\* the agent on the token
cancel_all_asset(st, token) ==
    [st EXCEPT !.calls = Append(@, Call("cancel_all_asset", token, "", 0, 0)),
               !.exchange = exchange_cancel(@, token)]

within_price_limits_Inclusive(price) ==
    price >= MIN_PRICE_LIMIT /\ price <= MAX_PRICE_LIMIT

\* the price test of send_buy_order
within_price_limits(price) ==
    price >= MIN_PRICE_LIMIT /\ price < MAX_PRICE_LIMIT

\* the order handed to send_buy_order or send_sell_order, with the side
Sent(st, order, side) ==
    [st EXCEPT !.sends = Append(@, [token |-> order.token, side |-> side,
                                    price |-> order.price, size |-> order.size,
                                    orders |-> order.orders])]

send_buy_order_from_NoCancel(st, order, resp_ok) ==
    LET cancel == should_cancel(order.orders.buy, order.price, order.size,
                                BUY_PRICE_DIFF_THRESHOLD)
    IN  IF ~cancel THEN st
        ELSE IF within_price_limits(order.price)
             THEN create_order(st, order, "BUY", resp_ok)
             ELSE st

\* send_buy_order: nothing is done for an open buy close enough to the new
\* one; otherwise the token's orders are cancelled when the agent has any,
\* and the new buy is submitted if its price is within the limits
send_buy_order_from(st, order, resp_ok) ==
    LET cancel == should_cancel(order.orders.buy, order.price, order.size,
                                BUY_PRICE_DIFF_THRESHOLD)
        any    == order.orders.buy.size > 0 \/ order.orders.sell.size > 0
        st1    == IF cancel /\ any THEN cancel_all_asset(st, order.token) ELSE st
    IN  IF ~cancel THEN st
        ELSE IF within_price_limits(order.price)
             THEN create_order(st1, order, "BUY", resp_ok)
             ELSE st1

send_buy_order(st, order, resp_ok) ==
    send_buy_order_from(Sent(st, order, "BUY"), order, resp_ok)

send_sell_order_from_CancelOnly(st, order, resp_ok) ==
    LET cancel == should_cancel(order.orders.sell, order.price, order.size,
                                SELL_PRICE_DIFF_THRESHOLD)
        any    == order.orders.sell.size > 0 \/ order.orders.buy.size > 0
    IN  IF cancel /\ any THEN cancel_all_asset(st, order.token)
        ELSE IF cancel THEN create_order(st, order, "SELL", resp_ok)
        ELSE st

send_sell_order_from(st, order, resp_ok) ==
    LET cancel == should_cancel(order.orders.sell, order.price, order.size,
                                SELL_PRICE_DIFF_THRESHOLD)
        any    == order.orders.sell.size > 0 \/ order.orders.buy.size > 0
        st1    == IF cancel /\ any THEN cancel_all_asset(st, order.token) ELSE st
    IN  IF ~cancel THEN st
        ELSE create_order(st1, order, "SELL", resp_ok)

send_sell_order(st, order, resp_ok) ==
    send_sell_order_from(Sent(st, order, "SELL"), order, resp_ok)

\* ------------------------------------------------------------------------
\* trading.py: perform_trade
\* ------------------------------------------------------------------------

\* get_total_balance: liquidity plus the positions valued at their average
\* price, as a fraction of 1/10000 dollars
get_total_balance(pos, available_liquidity) ==
    LET Value(t) == IF t \in DOMAIN pos /\ pos[t].size > 0 /\ pos[t].avgPrice.n > 0
                    THEN [n |-> pos[t].size * pos[t].avgPrice.n, d |-> pos[t].avgPrice.d]
                    ELSE FracInt(0)
        v1 == Value("T1")
        v2 == Value("T2")
    IN  Frac(available_liquidity * v1.d * v2.d + v1.n * v2.d + v2.n * v1.d,
             v1.d * v2.d)

\* sell_only of perform_trade
sell_only_mode(pos, inp) ==
    LET total == get_total_balance(pos, inp.available_liquidity) IN
    \/ inp.in_positions /\ ~inp.in_selected
    \/ inp.available_liquidity * 100 * total.d < total.n * (100 - SELL_ONLY_THRESHOLD)
    \/ inp.row.hour3 > VOLATILITY_EXIT_THRESHOLD

\* pnl < STOP_LOSS_THRESHOLD, pnl being (mid_price - avgPrice) / avgPrice * 100
\* for a positive avgPrice and 0 otherwise; mid_price is (top_bid + top_ask) / 2.
\* A pnl of -4 exactly depends on the rounding of the doubles and is left out.
pnl_below_stop_loss(top_bid, top_ask, avgPrice) ==
    LET lhs == ((top_bid + top_ask) * avgPrice.d - 2 * avgPrice.n) * 100
        rhs == STOP_LOSS_THRESHOLD * 2 * avgPrice.n
    IN  CASE avgPrice.n <= 0 -> 0 < STOP_LOSS_THRESHOLD
          [] avgPrice.n > 0 /\ lhs # rhs -> lhs < rhs

\* The prices p/100 for which the double (p+4)/100 less the double p/100 is
\* no more than the double 0.04; for every other p from 1 to 95 the
\* difference of the two doubles is 0.04000000000000001 or more.
FourHundredthsApart ==
    {1, 2, 4, 5, 7, 8, 11, 14, 17, 20, 25, 26, 27, 28, 31, 32, 33, 34, 37, 38, 39,
     40, 43, 44, 45, 46, 53, 54, 55, 56, 65, 66, 67, 68, 78, 79, 80, 81, 90, 91,
     92, 93}

top_spread_within_Exact(top_bid, top_ask) ==
    top_ask - top_bid <= STOP_LOSS_SPREAD_THRESHOLD

\* top_spread <= STOP_LOSS_SPREAD_THRESHOLD, top_spread being top_ask - top_bid
\* in doubles: the subtraction is exact, so only a spread of exactly 0.04
\* depends on how the two prices and 0.04 are rounded; that case is worked
\* out for prices of two decimals.
top_spread_within(top_bid, top_ask) ==
    LET d == top_ask - top_bid IN
    CASE d # STOP_LOSS_SPREAD_THRESHOLD -> d < STOP_LOSS_SPREAD_THRESHOLD
      [] d = STOP_LOSS_SPREAD_THRESHOLD /\ top_bid % 100 = 0 ->
             (top_bid \div 100) \in FourHundredthsApart

risk_off_period_Ignored(sleep_till, clock) == FALSE

\* the risk-off check of the buy branch: positions/<market>.json exists and
\* the time is before its sleep_till
risk_off_period(sleep_till, clock) == sleep_till # NoFile /\ clock < sleep_till

box_sum_blocks_Strict(rev_pos, min_size, price) ==
    /\ rev_pos.size > min_size
    /\ price * rev_pos.avgPrice.d + rev_pos.avgPrice.n
           > PRICE_PRECISION_LIMIT * rev_pos.avgPrice.d

\* the box-sum test of the buy branch: a significant opposing position whose
\* average price plus the buy price reaches PRICE_PRECISION_LIMIT
box_sum_blocks(rev_pos, min_size, price) ==
    /\ rev_pos.size > min_size
    /\ price * rev_pos.avgPrice.d + rev_pos.avgPrice.n
           >= PRICE_PRECISION_LIMIT * rev_pos.avgPrice.d

get_buy_sell_amount_SellsMoreThanHeld(position, row, force_sell) ==
    LET Least(x, y) == IF x < y THEN x ELSE y
        Floor(amount) == IF amount >= row.min_size THEN amount
                         ELSE IF 10 * amount > 7 * row.min_size THEN row.min_size
                         ELSE 0
        buy_0  == IF position < row.max_size
                  THEN Least(row.trade_size, row.max_size - position) ELSE 0
        sell_0 == IF position >= row.trade_size \/ force_sell THEN position ELSE 0
        sell_1 == Floor(sell_0)
    IN  [buy_amount  |-> IF force_sell THEN 0 ELSE Floor(buy_0),
         sell_amount |-> IF force_sell THEN Least(sell_1, position) ELSE sell_1]

get_buy_sell_amount_BuysUnderForceSell(position, row, force_sell) ==
    LET Least(x, y) == IF x < y THEN x ELSE y
        Floor(amount) == IF amount >= row.min_size THEN amount
                         ELSE IF 10 * amount > 7 * row.min_size THEN row.min_size
                         ELSE 0
        buy_0  == IF position < row.max_size
                  THEN Least(row.trade_size, row.max_size - position) ELSE 0
        sell_0 == IF position >= row.trade_size \/ force_sell THEN position ELSE 0
        sell_1 == Floor(sell_0)
    IN  [buy_amount  |-> Floor(buy_0),
         sell_amount |-> IF sell_1 > position
                         THEN (IF force_sell THEN position ELSE 0)
                         ELSE sell_1]

\* AnSMarketStrategy.get_buy_sell_amount(position, row, force_sell), which
\* the GLFT strategy passes on to: what to buy and what to sell.  An amount
\* under min_size becomes min_size when above 0.7 of it and 0 otherwise; a
\* sell of more than the position becomes the position under force_sell and
\* 0 otherwise.
get_buy_sell_amount(position, row, force_sell) ==
    LET Least(x, y) == IF x < y THEN x ELSE y
        Floor(amount) == IF amount >= row.min_size THEN amount
                         ELSE IF 10 * amount > 7 * row.min_size THEN row.min_size
                         ELSE 0
        buy_0  == IF position < row.max_size
                  THEN Least(row.trade_size, row.max_size - position) ELSE 0
        sell_0 == IF position >= row.trade_size \/ force_sell THEN position ELSE 0
        sell_1 == Floor(sell_0)
    IN  [buy_amount  |-> IF force_sell THEN 0 ELSE Floor(buy_0),
         sell_amount |-> IF sell_1 > position
                         THEN (IF force_sell THEN position ELSE 0)
                         ELSE sell_1]

\* a call of get_buy_sell_amount and what it returned
GetBuySellAmount(inp) ==
    /\ pos_last' = [op |-> "get_buy_sell_amount", inp |-> inp,
                    ret |-> get_buy_sell_amount(inp.position, inp.row, inp.force_sell)]
    /\ UNCHANGED <<positions, trade_count, last_trade_update>>
    /\ pos_frame

Mark(st, token, branch) == [st EXCEPT !.branch[token] = branch]

\* F(v), with v worked out once
Bind(v, F(_)) == CHOOSE r \in {F(x) : x \in {v}} : TRUE

no_reference_price_BidOnly(deets) == deets.top_bid = None

\* line 288: top_bid is None or top_ask is None
no_reference_price(deets) == deets.top_bid = None \/ deets.top_ask = None

\* the body of the loop over the market's two tokens from line 283 on:
\* st is the pass so far, orders_ and deets what lines 265 to 277 read
trade_token_body(st, market, token, inp, sell_only, orders_, deets, pos, clock) ==
    LET row     == inp.row
        strat   == inp.strategy[token]
        resp_ok == inp.resp_ok
        rl      == round_length(row.tick_size)
        top_bid == round(deets.top_bid.p, rl)
        top_ask == round(deets.top_ask.p, rl)
        \* round_down(position, 2) leaves a whole number of shares as it is
        position == get_position(pos, token).size
        avgPrice == get_position(pos, token).avgPrice
        bid_price == round(strat.bid, rl)
        ask_price == round(strat.ask, rl)
        max_size == row.max_size
        order(price, size) == [market |-> market, token |-> token,
                               price |-> price, size |-> size, orders |-> orders_]
        rev_pos == get_position(pos, REVERSE_TOKENS[token])
        amounts == get_buy_sell_amount(position, row, sell_only)
        buy_amount == amounts.buy_amount
        sell_amount == amounts.sell_amount
        risk_off == risk_off_period(st.journal[market], clock)
    IN  IF no_reference_price(deets)
        THEN Mark(st, token, "no_top")
        ELSE IF strat.raises
        THEN [Mark(st, token, "raised") EXCEPT !.aborted = TRUE]
        ELSE IF /\ pnl_below_stop_loss(top_bid, top_ask, avgPrice)
                /\ top_spread_within(top_bid, top_ask)
        THEN [Mark(send_sell_order(st, order(top_bid, position), resp_ok),
                   token, "stop_loss")
                EXCEPT !.journal[market] = clock + STOP_LOSS_SLEEP_PERIOD_MINS * 60]
        ELSE IF sell_only /\ sell_amount > 0
        THEN Mark(send_sell_order(st, order(ask_price, sell_amount), resp_ok),
                  token, "sell_only")
        ELSE IF /\ position < max_size
                /\ buy_amount > 0
                /\ buy_amount >= row.min_size
        THEN IF risk_off THEN Mark(st, token, "risk_off")
             ELSE IF box_sum_blocks(rev_pos, row.min_size, bid_price)
             THEN Mark(IF orders_.buy.size > MIN_MERGE_SIZE
                       THEN cancel_all_asset(st, token) ELSE st,
                       token, "box_sum")
             ELSE IF position + orders_.buy.size < max_size
             THEN Mark(send_buy_order(st, order(bid_price, buy_amount), resp_ok),
                       token, "buy")
             ELSE Mark(st, token, "buy_full")
        ELSE IF sell_amount > 0
        THEN Mark(send_sell_order(st, order(ask_price, sell_amount), resp_ok),
                  token, "sell")
        ELSE Mark(st, token, "idle")

\* line 275: one of best_bid, best_ask, best_bid_size, best_ask_size is None
deets_incomplete(deets) ==
    \/ deets.best_bid = None
    \/ deets.best_ask = None
    \/ deets.best_bid_size = -1
    \/ deets.best_ask_size = -1

\* lines 272 to 277: the book read for sizes above 100, and again for sizes
\* above 20 when that finds no best bid or ask
read_deets(d100, obs, token) ==
    IF deets_incomplete(d100)
    THEN get_best_bid_ask_deets(obs, token, 20) ELSE d100

\* lines 265 to 277 of the loop, then the rest of its body
trade_token_read(st, found, market, token, inp, sell_only, obs, pos, clock) ==
    Bind(read_deets(get_best_bid_ask_deets(obs, token, 100), obs, token),
         LAMBDA deets :
             trade_token_body([st EXCEPT !.orders = found.orders], market, token,
                              inp, sell_only, found.ret, deets, pos, clock))

\* the loop over the market's two tokens, for one token; an exception in
\* the pass so far has ended the loop
trade_token(st, market, token, inp, sell_only, obs, pos, clock) ==
    IF st.aborted THEN st
    ELSE trade_token_read(st, get_order(st.orders, token), market, token, inp,
                          sell_only, obs, pos, clock)

\* lines 272 to 277 on their own: the probes made and the deets the pass
\* goes on with
ReadDeets(token) ==
    /\ \E d100 \in {get_best_bid_ask_deets(order_books, token, 100)} :
           book_last' = [op |-> "read_deets", token |-> token,
                         ret |-> [probes |-> IF deets_incomplete(d100)
                                             THEN <<100, 20>> ELSE <<100>>,
                                  deets  |-> read_deets(d100, order_books, token)]]
    /\ UNCHANGED order_books
    /\ book_frame

\* client.get_position(token)[0]: the balance on chain, in millionths of a
\* share
RAW_UNIT == 1000000

merge_positions_FailureAborts(st, market, inp, pos) ==
    LET pos_1 == get_position(pos, "T1").size
        pos_2 == get_position(pos, "T2").size
        amount_to_merge == IF pos_1 < pos_2 THEN pos_1 ELSE pos_2
        amount_to_merge_raw == (amount_to_merge - inp.raw_lag) * RAW_UNIT
    IN  IF amount_to_merge > MIN_MERGE_SIZE /\ amount_to_merge_raw > MIN_MERGE_SIZE * RAW_UNIT
        THEN [st EXCEPT !.calls =
                 Append(@, Call("merge_positions", "T1", "", 0, amount_to_merge_raw)),
                        !.aborted = ~inp.merge_ok]
        ELSE st

\* lines 226 to 254, the merge of opposing positions: when the smaller of
\* the two local positions is above MIN_MERGE_SIZE and so is the smaller of
\* the two balances on chain, client.merge_positions is called with the
\* latter; an exception of the call is logged and the pass goes on, and the
\* local positions are left to the background update either way
merge_positions(st, market, inp, pos) ==
    LET pos_1 == get_position(pos, "T1").size
        pos_2 == get_position(pos, "T2").size
        amount_to_merge == IF pos_1 < pos_2 THEN pos_1 ELSE pos_2
        amount_to_merge_raw == (amount_to_merge - inp.raw_lag) * RAW_UNIT
    IN  IF amount_to_merge > MIN_MERGE_SIZE /\ amount_to_merge_raw > MIN_MERGE_SIZE * RAW_UNIT
        THEN [st EXCEPT !.calls =
                 Append(@, Call("merge_positions", "T1", "", 0, amount_to_merge_raw))]
        ELSE st

\* perform_trade(market): what the pass leaves behind
perform_trade(st, market, inp, obs, pos, clock) ==
    IF ~inp.listed THEN st
    ELSE Bind(sell_only_mode(pos, inp), LAMBDA sell_only :
         Bind(merge_positions(st, market, inp, pos), LAMBDA st1 :
         Bind(trade_token(st1, market, "T1", inp, sell_only, obs, pos, clock), LAMBDA st2 :
              trade_token(st2, market, "T2", inp, sell_only, obs, pos, clock))))

\* run_task running perform_trade(market) for a market whose row, selection
\* flags and liquidity are inp's, with the strategy answering inp.strategy
\* and the exchange inp.resp_ok; schedule_task has started it for a market
\* with no order in flight, and only a pass registers one
PerformTradeBody(market, inp) ==
    /\ orders_in_flight[market] = {}
    /\ \E r \in {perform_trade([calls   |-> <<>>,
                                sends   |-> <<>>,
                                oif     |-> orders_in_flight,
                                exch    |-> exch_orders,
                                exchange |-> exchange,
                                orders  |-> orders,
                                journal |-> journal,
                                aborted |-> FALSE,
                                branch  |-> [t \in Tokens |-> "not_run"]],
                               market, inp, order_books, positions, now)} :
           /\ orders_in_flight' = r.oif
           /\ exch_orders' = r.exch
           /\ exchange' = r.exchange
           /\ orders' = r.orders
           /\ journal' = r.journal
           /\ trade_last' = [op        |-> "perform_trade",
                             market    |-> market,
                             row       |-> inp.row,
                             positions |-> positions,
                             orders    |-> orders,
                             journal   |-> journal,
                             now       |-> now,
                             sell_only |-> inp.listed /\ sell_only_mode(positions, inp),
                             strategy  |-> inp.strategy,
                             sends     |-> r.sends,
                             calls     |-> r.calls,
                             branch    |-> r.branch,
                             aborted   |-> r.aborted,
                             merge_ok  |-> inp.merge_ok]

\* the pass on its own, the scheduler left aside
PerformTrade(market, inp) ==
    /\ PerformTradeBody(market, inp)
    /\ trade_frame

perform_trade_outcome_Propagates(aborted) == IF aborted THEN "raise" ELSE "ok"

\* how perform_trade ends for run_task: the except clause of lines 464 to
\* 467 logs whatever the try block raised, and the function returns
perform_trade_outcome(aborted) == "ok"

\* run_task running perform_trade(market) for a market schedule_task has
\* spawned a pass for, and releasing the market when it ends
RunPass(market, inp) ==
    /\ tasks[market] > 0
    /\ PerformTradeBody(market, inp)
    /\ \E outcome \in {perform_trade_outcome(trade_last'.aborted)} :
           /\ inflight' = run_task_end(inflight, market, outcome)
           /\ ended' = [ended EXCEPT ![market] = outcome]
    /\ tasks' = [tasks EXCEPT ![market] = @ - 1]
    /\ OnlyLast("trade")
    /\ UNCHANGED <<positions, trade_count, order_books, order_book_data, now,
                   performing, performing_timestamps, last_trade_update>>

InitTrade ==
    /\ exchange = [open |-> {}, events |-> <<>>]
    /\ journal = [m \in Markets |-> NoFile]
    /\ now = 0
    /\ trade_last = NoTradeLast

\* a pass over market m1, and around it the events that set what it reads:
\* fills, book snapshots and the agent's own resting buy
NextTrade ==
    \/ \E inp \in PassInputs : PerformTrade("m1", inp)
    \/ \E token \in Tokens, price \in TradeFillPrices :
          SetPosition(token, "buy", 10, price)
    \/ \E token \in Tokens, json_data \in BookSnapshots :
          OBProcessBookData(token, json_data)
    \/ SetOrder("T2", "buy", 30, 4204)

\* ------------------------------------------------------------------------
\* data_processing.py: the user channel; data_utils.py: reconciliation
\* ------------------------------------------------------------------------

\* row['side'].lower()
lower(side) ==
    CASE side = "BUY" -> "buy"
      [] side = "SELL" -> "sell"
      [] OTHER -> side

\* the keys of global_state.performing: token + "_" + side
Col(token, side) == <<token, side>>

Cols == {Col(t, sd) : t \in Tokens, sd \in Sides}

\* update_markets has run: the market's tokens are in REVERSE_TOKENS and
\* each "token_side" has an empty set in performing
InitUser ==
    /\ performing = [c \in Cols |-> {}]
    /\ performing_timestamps = <<>>
    /\ last_trade_update = <<>>
    /\ user_last = NoUserLast

\* add_to_performing(col, id): the ID joins performing[col], with its time
add_to_performing_NoTimestamp(perf, stamps, col, id, clock) ==
    [performing |->
        [c \in DOMAIN perf \cup {col} |->
            IF c = col THEN (IF c \in DOMAIN perf THEN perf[c] ELSE {}) \cup {id}
            ELSE perf[c]],
     performing_timestamps |-> stamps]

add_to_performing(perf, stamps, col, id, clock) ==
    [performing |->
        [c \in DOMAIN perf \cup {col} |->
            IF c = col THEN (IF c \in DOMAIN perf THEN perf[c] ELSE {}) \cup {id}
            ELSE perf[c]],
     performing_timestamps |->
        [c \in DOMAIN stamps \cup {col} |->
            IF c = col
            THEN LET old == IF c \in DOMAIN stamps THEN stamps[c] ELSE <<>> IN
                 [i \in DOMAIN old \cup {id} |-> IF i = id THEN clock ELSE old[i]]
            ELSE stamps[c]]]

remove_from_performing_ClearsCol(perf, stamps, col, id) ==
    [performing |->
        [c \in DOMAIN perf |-> IF c = col THEN {} ELSE perf[c]],
     performing_timestamps |->
        [c \in DOMAIN stamps |-> IF c = col THEN <<>> ELSE stamps[c]]]

\* remove_from_performing(col, id): discard the ID from performing[col] and
\* pop its time; nothing changes when the column or the ID is not there
remove_from_performing(perf, stamps, col, id) ==
    [performing |->
        [c \in DOMAIN perf |-> IF c = col THEN perf[c] \ {id} ELSE perf[c]],
     performing_timestamps |->
        [c \in DOMAIN stamps |->
            IF c = col THEN [i \in DOMAIN stamps[c] \ {id} |-> stamps[c][i]]
            ELSE stamps[c]]]

update_positions_BuySideOnly(pos, perf, ltu, clock, avgOnly, server) ==
    LET Row_(a) == CHOOSE r \in server : r.asset = a
        Pending(key) == key \in DOMAIN perf /\ perf[key] # {}
        Recent(a) == a \in DOMAIN ltu /\ clock - ltu[a] < TRADE_UPDATE_GRACE
        Old(a) == IF a \in DOMAIN pos THEN pos[a]
                  ELSE [size |-> 0, avgPrice |-> FracInt(0)]
        New(a) ==
            [size |-> IF ~avgOnly THEN Row_(a).size
                      ELSE IF Pending(Col(a, "buy")) THEN Old(a).size
                      ELSE IF Recent(a) THEN Old(a).size
                      ELSE Row_(a).size,
             avgPrice |-> FracInt(Row_(a).avgPrice)]
        assets == {r.asset : r \in server}
    IN  [a \in DOMAIN pos \cup assets |-> IF a \in assets THEN New(a) ELSE pos[a]]

\* update_positions(avgOnly): for every row the exchange returns, the
\* average price is taken over; the size too, unless avgOnly and a trade of
\* the token is in performing on either side or the token's position was
\* updated locally less than 5 seconds ago
update_positions(pos, perf, ltu, clock, avgOnly, server) ==
    LET Row_(a) == CHOOSE r \in server : r.asset = a
        Pending(key) == key \in DOMAIN perf /\ perf[key] # {}
        Recent(a) == a \in DOMAIN ltu /\ clock - ltu[a] < TRADE_UPDATE_GRACE
        Old(a) == IF a \in DOMAIN pos THEN pos[a]
                  ELSE [size |-> 0, avgPrice |-> FracInt(0)]
        New(a) ==
            [size |-> IF ~avgOnly THEN Row_(a).size
                      ELSE IF Pending(Col(a, "buy")) \/ Pending(Col(a, "sell"))
                           THEN Old(a).size
                      ELSE IF Recent(a) THEN Old(a).size
                      ELSE Row_(a).size,
             avgPrice |-> FracInt(Row_(a).avgPrice)]
        assets == {r.asset : r \in server}
    IN  [a \in DOMAIN pos \cup assets |-> IF a \in assets THEN New(a) ELSE pos[a]]

trade_target_TopLevel(row) ==
    [token |-> row.asset_id, side |-> lower(row.side),
     size |-> row.size, price |-> row.price]

\* what a trade counts for (lines 140 to 165): the message's own token, side,
\* size and price for a taker; the maker order's matched_amount and price
\* for a maker, with the side reversed when the maker order has the taker's
\* outcome and the token replaced by the reverse token when it has not
trade_target(row) ==
    CASE row.maker = "taker" ->
             [token |-> row.asset_id, side |-> lower(row.side),
              size |-> row.size, price |-> row.price]
      [] row.maker = "maker_same" ->
             [token |-> row.asset_id, side |-> OppositeSide(lower(row.side)),
              size |-> row.matched_amount, price |-> row.maker_price]
      [] row.maker = "maker_other" ->
             [token |-> REVERSE_TOKENS[row.asset_id], side |-> lower(row.side),
              size |-> row.matched_amount, price |-> row.maker_price]

\* process_user_data for one "trade" message: st holds the state it works on
process_user_trade(st, row, server, clock) ==
    LET col    == Col(row.asset_id, lower(row.side))
        target == trade_target(row)
        Sched(s) ==
            LET r == schedule_task(s.inflight, s.tasks, s.oif, row.market) IN
            [s EXCEPT !.inflight = r.inflight, !.tasks = r.tasks]
        Without(s) ==
            LET r == remove_from_performing(s.performing, s.performing_timestamps,
                                            col, row.id) IN
            [s EXCEPT !.performing = r.performing,
                      !.performing_timestamps = r.performing_timestamps]
    IN  IF row.asset_id \notin DOMAIN REVERSE_TOKENS THEN st
        ELSE CASE row.status = "FAILED" ->
                    [st EXCEPT !.positions =
                        update_positions(st.positions, st.performing,
                                         st.last_trade_update, clock, FALSE, server)]
               [] row.status = "CONFIRMED" ->
                    IF col \in DOMAIN st.performing
                    THEN Sched(Without(st))
                    ELSE [Without(st) EXCEPT !.raised = TRUE]
               [] row.status = "MATCHED" ->
                    LET a == add_to_performing(st.performing, st.performing_timestamps,
                                               col, row.id, clock)
                        p == set_position(st.positions, target.token, target.side,
                                          target.size, target.price)
                        s1 == [st EXCEPT
                                 !.performing = a.performing,
                                 !.performing_timestamps = a.performing_timestamps,
                                 !.last_trade_update = touch(@, target.token, clock),
                                 !.positions = p.positions]
                    IN  IF p.raised THEN [s1 EXCEPT !.raised = TRUE] ELSE Sched(s1)
               [] row.status = "MINED" -> Without(st)
               [] OTHER -> st

\* the state process_user_data and the reconcilers work on
UserState ==
    [performing |-> performing, performing_timestamps |-> performing_timestamps,
     positions |-> positions, last_trade_update |-> last_trade_update,
     orders |-> orders, oif |-> orders_in_flight, inflight |-> inflight,
     tasks |-> tasks, exchange |-> exchange, calls |-> <<>>, raised |-> FALSE]

\* the state an operation of the user part leaves behind
UserStateBecomes(r) ==
    /\ performing' = r.performing
    /\ performing_timestamps' = r.performing_timestamps
    /\ positions' = r.positions
    /\ last_trade_update' = r.last_trade_update
    /\ orders' = r.orders
    /\ orders_in_flight' = r.oif
    /\ inflight' = r.inflight
    /\ tasks' = r.tasks
    /\ exchange' = r.exchange

\* process_user_data(row) for a "trade" message; server is what
\* get_all_positions would answer
ProcessUserTrade(row, server) ==
    /\ row.status = "MATCHED" => trade_count < MaxFills
    /\ \E r \in {process_user_trade(UserState, row, server, now)} :
           /\ UserStateBecomes(r)
           /\ user_last' = [op |-> "trade", avgOnly |-> FALSE, server |-> server,
                            row |-> row, prev |-> 0, calls |-> r.calls,
                            raised |-> r.raised]
    /\ trade_count' = IF row.status = "MATCHED" THEN trade_count + 1 ELSE trade_count
    /\ UNCHANGED exch_orders
    /\ user_frame

\* the periodic update_positions(avgOnly)
UpdatePositions(avgOnly, server) ==
    /\ \E r \in {[UserState EXCEPT !.positions =
                     update_positions(positions, performing, last_trade_update,
                                      now, avgOnly, server)]} :
           /\ UserStateBecomes(r)
           /\ user_last' = [op |-> "update_positions", avgOnly |-> avgOnly,
                            server |-> server, row |-> <<>>, prev |-> 0,
                            calls |-> <<>>, raised |-> FALSE]
    /\ UNCHANGED <<exch_orders, trade_count>>
    /\ user_frame

\* the periodic pruning of performing: every trade ID added more than
\* STALE_TRADE_TIMEOUT seconds ago is removed
prune_stale(perf, stamps, clock) ==
    LET Stale(c, i) == /\ c \in DOMAIN stamps /\ i \in DOMAIN stamps[c]
                       /\ clock - stamps[c][i] > STALE_TRADE_TIMEOUT
    IN  [performing |->
            [c \in DOMAIN perf |-> {i \in perf[c] : ~Stale(c, i)}],
         performing_timestamps |->
            [c \in DOMAIN stamps |->
                [i \in {j \in DOMAIN stamps[c] : ~Stale(c, j)} |-> stamps[c][i]]]]

\* the pruning run; prev is the number of trade IDs it removed
PruneStale ==
    /\ \E r \in {prune_stale(performing, performing_timestamps, now)} :
           /\ performing' = r.performing
           /\ performing_timestamps' = r.performing_timestamps
           /\ user_last' = [op |-> "prune", avgOnly |-> FALSE, server |-> {},
                            row |-> <<>>,
                            prev |-> Cardinality({<<c, i>> \in Cols \X TradeIds :
                                         i \in performing[c] /\ i \notin r.performing[c]}),
                            calls |-> <<>>, raised |-> FALSE]
    /\ UNCHANGED <<positions, trade_count, last_trade_update, orders, orders_in_flight,
                   inflight, tasks, exch_orders, exchange>>
    /\ user_frame

\* the clock moves on by step seconds
Later(step) ==
    /\ now + step <= MaxSeconds
    /\ now' = now + step
    /\ OnlyLast("clock")
    /\ UNCHANGED <<exchange, inflight, tasks, orders_in_flight, exch_orders, ended, positions,
                   trade_count, order_books, order_book_data, orders, journal,
                   performing, performing_timestamps, last_trade_update>>

order_size_after_Unclamped(order_size, row) ==
    CASE row.type = "PLACEMENT" -> order_size + row.original_size
      [] row.type = "UPDATE" -> order_size - row.size_matched
      [] row.type = "CANCELLATION" -> order_size - row.original_size
      [] OTHER -> order_size

\* the open size after an order message: the stored size plus original_size
\* on PLACEMENT, less size_matched on UPDATE, less original_size on
\* CANCELLATION, and never below 0
order_size_after(order_size, row) ==
    LET moved == CASE row.type = "PLACEMENT" -> order_size + row.original_size
                   [] row.type = "UPDATE" -> order_size - row.size_matched
                   [] row.type = "CANCELLATION" -> order_size - row.original_size
                   [] OTHER -> order_size
    IN  IF moved > 0 THEN moved ELSE 0

\* global_state.orders[token][side]['size'], 0 when the lookup raises
stored_order_size(ords, token, side) ==
    IF token \in DOMAIN ords /\ side \in DOMAIN ords[token]
    THEN ords[token][side].size
    ELSE 0

process_user_order_SchedulesAlways(st, row, market) ==
    IF row.asset_id \notin DOMAIN REVERSE_TOKENS THEN st
    ELSE LET side == lower(row.side)
             order_size == order_size_after(
                               stored_order_size(st.orders, row.asset_id, side), row)
             s1 == [st EXCEPT
                      !.orders = set_order(@, row.asset_id, side, order_size, row.price),
                      !.oif = clear_order_in_flight(@, row.id)]
             r == schedule_task(s1.inflight, s1.tasks, s1.oif, market)
         IN  [s1 EXCEPT !.inflight = r.inflight, !.tasks = r.tasks]

\* process_user_data that clears the order in flight where it schedules:
\* for the messages that are not a PLACEMENT
process_user_order_ClearsWhereItSchedules(st, row, market) ==
    IF row.asset_id \notin DOMAIN REVERSE_TOKENS THEN st
    ELSE LET side == lower(row.side)
             order_size == order_size_after(
                               stored_order_size(st.orders, row.asset_id, side), row)
             s1 == [st EXCEPT
                      !.orders = set_order(@, row.asset_id, side, order_size, row.price)]
         IN  IF row.type # "PLACEMENT"
             THEN LET s2 == [s1 EXCEPT !.oif = clear_order_in_flight(@, row.id)]
                      r  == schedule_task(s2.inflight, s2.tasks, s2.oif, market)
                  IN  [s2 EXCEPT !.inflight = r.inflight, !.tasks = r.tasks]
             ELSE s1

\* process_user_data for one "order" message of a market
process_user_order(st, row, market) ==
    IF row.asset_id \notin DOMAIN REVERSE_TOKENS THEN st
    ELSE LET side == lower(row.side)
             order_size == order_size_after(
                               stored_order_size(st.orders, row.asset_id, side), row)
             s1 == [st EXCEPT
                      !.orders = set_order(@, row.asset_id, side, order_size, row.price),
                      !.oif = clear_order_in_flight(@, row.id)]
         IN  IF row.type # "PLACEMENT"
             THEN LET r == schedule_task(s1.inflight, s1.tasks, s1.oif, market) IN
                  [s1 EXCEPT !.inflight = r.inflight, !.tasks = r.tasks]
             ELSE s1

\* process_user_data(row) for an "order" message about an order the
\* exchange holds
HandleOrderEvent(row) ==
    /\ row.id \in DOMAIN exch_orders
    /\ order_size_after(stored_order_size(orders, row.asset_id, lower(row.side)), row)
           <= MaxOpenSize
    /\ \E r \in {process_user_order(UserState, row, exch_orders[row.id])} :
           /\ orders' = r.orders
           /\ orders_in_flight' = r.oif
           /\ inflight' = r.inflight
           /\ tasks' = r.tasks
    /\ sched_last' = Found("order_event", exch_orders[row.id], row.type, row.id)
    /\ user_last' = [op |-> "order", avgOnly |-> FALSE, server |-> {}, row |-> row,
                     prev |-> stored_order_size(orders, row.asset_id, lower(row.side)),
                     calls |-> <<>>, raised |-> FALSE]
    /\ pos_last' = NoPosLast
    /\ book_last' = NoBookLast
    /\ feed_last' = NoFeedLast
    /\ trade_last' = NoTradeLast
    /\ UNCHANGED <<exch_orders, ended, positions, trade_count, order_books,
                   order_book_data, journal, now, performing, performing_timestamps,
                   last_trade_update>>

\* an "order" message arrives, whatever the exchange has sent before
OrderEvent(row) ==
    /\ HandleOrderEvent(row)
    /\ UNCHANGED exchange

\* the next "order" message of the exchange arrives
DeliverOrderEvent ==
    /\ exchange.events # <<>>
    /\ HandleOrderEvent(Head(exchange.events))
    /\ exchange' = [exchange EXCEPT !.events = Tail(@)]

\* the exchange matches an open order in full: the order is no longer open
\* and the user channel will carry its UPDATE
ExchangeFill(id) ==
    /\ \E o \in exchange.open :
           /\ o.id = id
           /\ exchange' = [open   |-> exchange.open \ {o},
                           events |-> Append(exchange.events,
                                             OrderRow(o.id, o.token, o.side, "UPDATE",
                                                      o.size, o.size, o.price))]
    /\ OnlyLast("exchange")
    /\ UNCHANGED <<inflight, tasks, orders_in_flight, exch_orders, ended, positions,
                   trade_count, order_books, order_book_data, orders, journal, now,
                   performing, performing_timestamps, last_trade_update>>

\* the orders of one token and side in what get_all_orders answered
sel_orders(all_orders, token, type) ==
    SelectSeq(all_orders,
              LAMBDA o : o.asset_id = token /\ o.side = (IF type = "buy" THEN "BUY" ELSE "SELL"))

\* update_orders, one side of one token: more than one order there cancels
\* all of the token's and puts both sides back to zero; a single one is
\* written to its side
update_orders_side(st, all_orders, token, type) ==
    LET curr == sel_orders(all_orders, token, type) IN
    IF Len(curr) > 1
    THEN [cancel_all_asset(st, token) EXCEPT !.orders = SetKey(@, token, NoOrders)]
    ELSE IF Len(curr) = 1
         THEN [st EXCEPT !.orders[token][type] =
                  [price |-> float(curr[1].price),
                   size  |-> curr[1].original_size - curr[1].size_matched]]
         ELSE st

\* update_orders, one token: its entry starts at zero on both sides, then
\* the buy side and the sell side are gone through in that order
update_orders_token(st, all_orders, token) ==
    LET s0 == IF token \in DOMAIN st.orders THEN st
              ELSE [st EXCEPT !.orders = SetKey(@, token, NoOrders)]
        s1 == update_orders_side(s0, all_orders, token, "buy")
    IN  update_orders_side(s1, all_orders, token, "sell")

\* the tokens of all_orders['asset_id'].unique(), from position i on, in
\* the order of their first appearance
RECURSIVE update_orders_from(_, _, _, _)
update_orders_from(st, all_orders, i, seen) ==
    IF i > Len(all_orders) THEN st
    ELSE LET token == all_orders[i].asset_id IN
         IF token \in seen
         THEN update_orders_from(st, all_orders, i + 1, seen)
         ELSE update_orders_from(update_orders_token(st, all_orders, token),
                                 all_orders, i + 1, seen \cup {token})

\* update_orders: global_state.orders is built anew from get_all_orders
update_orders(st, all_orders) ==
    update_orders_from([st EXCEPT !.orders = <<>>], all_orders, 1, {})

\* the periodic update_orders()
UpdateOrders(all_orders) ==
    /\ \E r \in {update_orders(UserState, all_orders)} :
           /\ UserStateBecomes(r)
           /\ user_last' = [op |-> "update_orders", avgOnly |-> FALSE,
                            server |-> all_orders, row |-> <<>>, prev |-> 0,
                            calls |-> r.calls, raised |-> FALSE]
    /\ UNCHANGED <<exch_orders, trade_count>>
    /\ user_frame

NextSched ==
    \/ \E src \in {"market_data", "trade_event"}, m \in Markets : Schedule(src, m)
    \/ \E row \in SchedOrderRows : OrderEvent(row)
    \/ \E m \in Markets, outcome \in {"ok", "raise"}, k \in 0..2 : RunTask(m, outcome, k)

\* passes over market m1 whose orders the exchange accepts or refuses, the
\* order messages that follow, and the periodic update_orders
NextOrders ==
    \/ \E inp \in OrderPassInputs : PerformTrade("m1", inp)
    \/ \E json_data \in ExchangeSnapshots : OBProcessBookData("T1", json_data)
    \/ \E row \in OrderRows : OrderEvent(row)
    \/ \E all_orders \in ServerOrders : UpdateOrders(all_orders)

\* passes over market m1 whose tokens have or lack a bid or an ask, in the
\* book or once the agent's own buy of 30 at 0.42 on T1 is taken off
NextSkip ==
    \/ \E inp \in ExchangePassInputs : PerformTrade("m1", inp)
    \/ \E token \in Tokens, json_data \in SkipSnapshots :
          OBProcessBookData(token, json_data)
    \/ \E size \in {0, 30} : OBSetOrder("T1", "buy", size, 4200)
    \/ \E price \in TradeFillPrices : SetPosition("T1", "buy", 10, price)

\* books and own orders, and the engine reading them
NextProbe ==
    \/ \E token \in Tokens, json_data \in ProbeSnapshots :
          OBProcessBookData(token, json_data)
    \/ \E side \in Sides, size \in OrderSizes, price \in OrderPrices :
          OBSetOrder("T1", side, size, price)
    \/ \E token \in Tokens : ReadDeets(token)

\* the engine and the exchange: passes over market m1, the exchange's order
\* messages delivered in the order it sent them, orders matched in full,
\* fills on T1 and its book
NextExchange ==
    \/ \E inp \in ExchangePassInputs : PerformTrade("m1", inp)
    \/ DeliverOrderEvent
    \/ \E id \in OrderIds : ExchangeFill(id)
    \/ \E price \in TradeFillPrices : SetPosition("T1", "buy", 10, price)
    \/ \E json_data \in ExchangeSnapshots : OBProcessBookData("T1", json_data)

\* fills reported on the user channel, the periodic reconciliation and
\* pruning, as time goes by
NextFills ==
    \/ \E row \in TradeRows :
           \E server \in (IF row.status = "FAILED" THEN ServerPositions ELSE {{}}) :
               ProcessUserTrade(row, server)
    \/ \E avgOnly \in BOOLEAN, server \in ServerPositions : UpdatePositions(avgOnly, server)
    \/ PruneStale
    \/ \E step \in FillClockSteps : Later(step)

\* passes over market m1 that find an open order of the agent's on T1
NextQuote ==
    \/ \E inp \in QuotePassInputs : PerformTrade("m1", inp)
    \/ \E price \in TradeFillPrices : SetPosition("T1", "buy", 10, price)
    \/ \E json_data \in BookSnapshots : OBProcessBookData("T1", json_data)
    \/ \E o \in OwnOrders : SetOrder("T1", o.side, o.size, o.price)

\* the clock moves on
Tick ==
    /\ now < MaxClock
    /\ now' = now + ClockStep
    /\ OnlyLast("clock")
    /\ UNCHANGED <<exchange, inflight, tasks, orders_in_flight, exch_orders, ended, positions,
                   trade_count, order_books, order_book_data, orders, journal,
                   performing, performing_timestamps, last_trade_update>>

\* passes over market m1 as time goes by, with fills on T1, books that do
\* and do not trip the stop-loss, and the exchange acknowledging the orders
NextRisk ==
    \/ \E inp \in RiskPassInputs : PerformTrade("m1", inp)
    \/ \E price \in TradeFillPrices : SetPosition("T1", "buy", 10, price)
    \/ \E json_data \in RiskSnapshots : OBProcessBookData("T1", json_data)
    \/ \E row \in RiskOrderRows : OrderEvent(row)
    \/ Tick

InitAll ==
    /\ InitSched
    /\ InitPos
    /\ InitBook
    /\ InitFeed
    /\ InitTrade
    /\ InitUser

NextPos ==
    \E token \in Tokens, side \in Sides, size \in FillSizes, price \in FillPrices :
        SetPosition(token, side, size, price)

SpecPos == InitAll /\ [][NextPos]_vars

SpecSched == InitAll /\ [][NextSched]_vars

SpecBook == InitAll /\ [][NextBook]_vars

SpecFeed == InitAll /\ [][NextFeed]_vars

SpecTrade == InitAll /\ [][NextTrade]_vars

SpecQuote == InitAll /\ [][NextQuote]_vars

SpecRisk == InitAll /\ [][NextRisk]_vars

SpecFills == InitAll /\ [][NextFills]_vars

SpecOrders == InitAll /\ [][NextOrders]_vars

SpecExchange == InitAll /\ [][NextExchange]_vars

SpecProbe == InitAll /\ [][NextProbe]_vars

SpecSkip == InitAll /\ [][NextSkip]_vars

NextSizes == \E inp \in SizeInputs : GetBuySellAmount(inp)

\* the user channel with the pruning and the clock running: trades are
\* matched while the model's time leaves room for them to go stale, and
\* fail, are confirmed, are mined or are heard of no more
NextStale ==
    \/ \E row \in StaleTradeRows :
           \E server \in (IF row.status = "FAILED" THEN ServerPositions ELSE {{}}) :
               /\ row.status = "MATCHED" => now + STALE_TRADE_TIMEOUT < MaxSeconds
               /\ ProcessUserTrade(row, server)
    \/ \E server \in ServerPositions : UpdatePositions(TRUE, server)
    \/ PruneStale
    \/ \E step \in FillClockSteps : Later(step)

\* the scheduler running perform_trade for m1 and some task for m2 on the
\* triggers of the ingest loops, with the order messages of what the passes
\* place
NextContain ==
    \/ \E src \in {"market_data", "trade_event"}, m \in Markets : Schedule(src, m)
    \/ \E inp \in ContainPassInputs : RunPass("m1", inp)
    \/ \E outcome \in {"ok", "raise"} : RunTask("m2", outcome, 0)
    \/ DeliverOrderEvent
    \/ \E json_data \in ExchangeSnapshots : OBProcessBookData("T1", json_data)

SpecContain == InitAll /\ [][NextContain]_vars

\* the pruning is a periodic task and time passes: neither is put off forever
SpecStale ==
    /\ InitAll
    /\ [][NextStale]_vars
    /\ WF_vars(PruneStale)
    /\ WF_vars(\E step \in FillClockSteps : Later(step))

\* passes over market m1 as the positions on its two tokens grow, with the
\* order messages of what the passes place
NextMerge ==
    \/ \E inp \in MergePassInputs : PerformTrade("m1", inp)
    \/ \E token \in Tokens, size \in MergeFillSizes :
          SetPosition(token, "buy", size, 5000)
    \/ \E json_data \in ExchangeSnapshots : OBProcessBookData("T1", json_data)
    \/ DeliverOrderEvent

SpecMerge == InitAll /\ [][NextMerge]_vars

SpecSizes == InitAll /\ [][NextSizes]_vars

\* ------------------------------------------------------------------------
\* Properties of the scheduler
\* ------------------------------------------------------------------------

\* the market a scheduler operation was about, and whether the operation
\* called schedule_task
SchedMarket == sched_last.market

CalledSchedule ==
    \/ sched_last.op = "schedule"
    \/ sched_last.op = "order_event" /\ sched_last.outcome # "PLACEMENT"

\* the orders in flight the schedule_task call found for its market (an order
\* event clears its own ID before it calls)
FoundOrdersInFlight == sched_last.oif[SchedMarket] \ {sched_last.id}

\* C1: single flight. For every market, whatever the interleaving of
\* schedule_task calls from market-data and user-data ingest with passes in
\* progress, at most one pass of the market is live at any instant.
C1_SingleFlight == \A m \in Markets : tasks[m] <= 1

\* a trigger arrived for a market whose pass was live, and was dropped
C1_Witness ==
    /\ sched_last.op = "schedule"
    /\ SchedMarket \in sched_last.inflight
    /\ tasks[SchedMarket] = 1

\* C2: in-flight blocking. A schedule_task call that finds orders in flight
\* for its market spawns no task and leaves the scheduler's in-flight set as
\* it was.
C2_InFlightBlocking ==
    (CalledSchedule /\ FoundOrdersInFlight # {}) =>
        /\ inflight = sched_last.inflight
        /\ tasks = sched_last.tasks

\* a call for a market with no live pass reached the orders-in-flight test and
\* was turned away by it
C2_Witness ==
    /\ sched_last.op = "schedule"
    /\ SchedMarket \notin sched_last.inflight
    /\ FoundOrdersInFlight # {}
    /\ SchedMarket \notin inflight

\* C3: release. A market is in the in-flight set exactly while it has a live
\* pass: when a pass ends, by returning or by raising, its market has left the
\* set, and a later schedule_task for a market with no live pass and no orders
\* in flight spawns a new pass.
C3_Release ==
    /\ inflight = {m \in Markets : tasks[m] > 0}
    /\ sched_last.op = "run_task" => SchedMarket \notin inflight
    /\ (CalledSchedule /\ SchedMarket \notin sched_last.inflight
                       /\ FoundOrdersInFlight = {}) =>
           /\ SchedMarket \in inflight
           /\ tasks[SchedMarket] = sched_last.tasks[SchedMarket] + 1

\* a market whose last pass raised is scheduled again and a new pass is spawned
C3_Witness ==
    /\ sched_last.op = "schedule"
    /\ ended[SchedMarket] = "raise"
    /\ SchedMarket \notin sched_last.inflight
    /\ SchedMarket \in inflight

\* ------------------------------------------------------------------------
\* Properties of position accounting
\* ------------------------------------------------------------------------

\* the signed size of the set_position call just made
LastSigned == IF pos_last.side = "sell" THEN -pos_last.size ELSE pos_last.size

\* C6: position accounting on buys. After set_position applies a buy of size
\* q at price p to a position (n, a) with n >= 0, the position is
\* (n + q, (n*a + q*p)/(n + q)); a buy into a zero position yields avgPrice p.
C6_BuyAccounting ==
    (pos_last.op = "set_position" /\ pos_last.side = "buy" /\ pos_last.prev.size >= 0) =>
        LET n   == pos_last.prev.size
            a   == pos_last.prev.avgPrice
            q   == pos_last.size
            p   == pos_last.price
            cur == positions[pos_last.token]
        IN /\ ~pos_last.raised
           /\ cur.size = n + q
           /\ cur.avgPrice.n * a.d * (n + q) = cur.avgPrice.d * (n * a.n + q * p * a.d)
           /\ n = 0 => cur.avgPrice = FracInt(p)

\* a buy at a new price was blended into an existing long position
C6_Witness ==
    /\ pos_last.op = "set_position"
    /\ pos_last.side = "buy"
    /\ pos_last.prev.size > 0
    /\ pos_last.prev.avgPrice # FracInt(pos_last.price)
    /\ positions[pos_last.token].size = pos_last.prev.size + pos_last.size

\* C7: reducing trades preserve avgPrice. A set_position call against a stored
\* position of the opposite sign (a sell against a long position, a buy against
\* a negative one) changes the size only and leaves avgPrice as it was; after
\* any sell the avgPrice is unchanged.
C7_ReducingPreservesAvg ==
    (/\ pos_last.op = "set_position"
     /\ pos_last.had
     /\ \/ pos_last.side = "sell"
        \/ pos_last.side = "buy" /\ pos_last.prev.size < 0) =>
        /\ positions[pos_last.token].size = pos_last.prev.size + LastSigned
        /\ positions[pos_last.token].avgPrice = pos_last.prev.avgPrice

\* the part of C7 the code keeps: a sell against a stored position changes the
\* size only
C7_SellPreservesAvg ==
    (pos_last.op = "set_position" /\ pos_last.had /\ pos_last.side = "sell") =>
        /\ positions[pos_last.token].size = pos_last.prev.size - pos_last.size
        /\ positions[pos_last.token].avgPrice = pos_last.prev.avgPrice

\* ------------------------------------------------------------------------
\* Order-book properties
\* ------------------------------------------------------------------------

\* the prices that can stand for 1 - k: the float difference, and the
\* complement taken exactly
Complements(k) == {OneMinus(k), [p |-> 10000 - k.p, u |-> 0 - k.u]}

\* every level of ladder has a level of the same size at 1 - price in other
MirroredIn(ladder, other) ==
    \A k \in DOMAIN ladder :
        \E c \in Complements(k) : c \in DOMAIN other /\ other[c] = ladder[k]

\* C4 (mirror invariant), on global_state.order_book_data as market-data
\* ingest maintains it: for every token with a book, every ask level (p, s)
\* has a bid level (1-p, s) in the mirror token's book, and every bid level
\* an ask level.
C4_MirrorInvariant ==
    \A t \in DOMAIN order_book_data :
        LET r == REVERSE_TOKENS[t] IN
        /\ r \in DOMAIN order_book_data
        /\ MirroredIn(order_book_data[t].asks, order_book_data[r].bids)
        /\ MirroredIn(order_book_data[t].bids, order_book_data[r].asks)

\* The same mirror relation on the OrderBooks registry, whose prices are
\* rounded to three decimals on the way in and on reversal.
C4_MirrorInvariant_OrderBooks ==
    \A t \in Tokens :
        LET r == REVERSE_TOKENS[t] IN
        /\ MirroredIn(order_books[t].asks, order_books[r].bids)
        /\ MirroredIn(order_books[t].bids, order_books[r].asks)

SizeAt(ladder, k) == IF k \in DOMAIN ladder THEN ladder[k] ELSE 0

\* view is ladder with the own order taken out: at the own order's price
\* the size is the full size less the own size and the level is absent
\* when that is not positive; every other level is as in ladder
ExcludesOwn(view, ladder, order) ==
    \A k \in DOMAIN ladder \cup DOMAIN view :
        LET own == IF order.size > 0 /\ k = order.price THEN order.size ELSE 0
            net == SizeAt(ladder, k) - own
        IN  /\ k \in DOMAIN view <=> (k \in DOMAIN ladder /\ net > 0)
            /\ k \in DOMAIN view => view[k] = net

ViewExcludesSelf ==
    LET ob == order_books[book_last.token] IN
    /\ ExcludesOwn(book_last.ret.bids, ob.bids, ob.orders.buy)
    /\ ExcludesOwn(book_last.ret.asks, ob.asks, ob.orders.sell)

\* C5 (no self-match view): a call of OrderBooks.get_order_book_exclude_self
\* leaves the book as it was and returns, at the price of the own buy order,
\* the bid size less the own size, the level absent when that is not
\* positive; the same for asks and the own sell order; all other levels as
\* in the book.
C5_NoSelfMatchView ==
    [][book_last'.op = "get_order_book_exclude_self"
         => (order_books' = order_books /\ ViewExcludesSelf')]_vars

\* C5 witness: a view was taken of a book holding more at the own buy
\* order's price than the own order, and the view shows the difference.
C5_Witness ==
    LET ob  == order_books[book_last.token]
        buy == ob.orders.buy
    IN  /\ book_last.op = "get_order_book_exclude_self"
        /\ buy.size > 0
        /\ buy.price \in DOMAIN ob.bids
        /\ ob.bids[buy.price] > buy.size
        /\ buy.price \in DOMAIN book_last.ret.bids
        /\ book_last.ret.bids[buy.price] = ob.bids[buy.price] - buy.size

\* ------------------------------------------------------------------------
\* Trading-pass properties
\* ------------------------------------------------------------------------

\* the create_order calls of the pass just run
CreateOrders ==
    {trade_last.calls[i] : i \in {j \in DOMAIN trade_last.calls :
                                     trade_last.calls[j].fn = "create_order"}}

BuyOrders == {c \in CreateOrders : c.side = "BUY"}

\* Position(mirror(t)) and the open buy on t, as the pass found them
MirrorPosition(t) == get_position(trade_last.positions, REVERSE_TOKENS[t])

OpenBuySize(t) == get_order(trade_last.orders, t).ret.buy.size

Cancelled(t) ==
    \E i \in DOMAIN trade_last.calls :
        trade_last.calls[i].fn = "cancel_all_asset" /\ trade_last.calls[i].token = t

\* C8 (box-sum guard): every BUY create_order of a pass on token t has
\* price + Position(mirror(t)).avgPrice < 0.99 whenever
\* Position(mirror(t)).size > row.min_size; and when the guard blocks the
\* buy on t while the open buy on t is larger than MIN_MERGE_SIZE, the pass
\* issues cancel_all_asset(t).
C8_BoxSumGuard ==
    /\ \A c \in BuyOrders :
          LET rev == MirrorPosition(c.token) IN
          rev.size > trade_last.row.min_size
              => c.price * rev.avgPrice.d + rev.avgPrice.n < 9900 * rev.avgPrice.d
    /\ \A t \in Tokens :
          (trade_last.branch[t] = "box_sum" /\ OpenBuySize(t) > 20) => Cancelled(t)

\* C8 witness: in one pass a buy went out on T1 with a significant position
\* in T2, and the buy on T2 was blocked with an open buy of more than 20,
\* which was cancelled.
C8_Witness ==
    /\ \E c \in BuyOrders :
          c.token = "T1" /\ MirrorPosition("T1").size > trade_last.row.min_size
    /\ trade_last.branch["T2"] = "box_sum"
    /\ OpenBuySize("T2") > 20
    /\ Cancelled("T2")

\* C9 (clamp): no BUY create_order has a price below 0.1 or at or above 0.9.
C9_Clamp == \A c \in BuyOrders : c.price >= 1000 /\ c.price < 9000

\* C9 witness: a pass reached send_buy_order for a token with no open order
\* of its own, so that nothing but the price test stood before create_order,
\* and sent no buy for it.
C9_Witness ==
    \E t \in Tokens :
        /\ trade_last.branch[t] = "buy"
        /\ get_order(trade_last.orders, t).ret = NoOrders
        /\ ~\E c \in BuyOrders : c.token = t

\* A pass sent a buy at exactly 0.1, the lowest price the test lets through.
BuyAtLowerLimit == \E c \in BuyOrders : c.price = 1000

\* C10 (tick alignment): every price passed to create_order is an integer
\* multiple of row.tick_size.
C10_TickAlignment ==
    \A c \in CreateOrders : c.price % trade_last.row.tick_size = 0

\* C10 witness: under a tick of 0.1 a pass sent a buy quote for T1 and a
\* stop-loss sell at top_bid for T2.
C10_Witness ==
    /\ trade_last.row.tick_size = 1000
    /\ \E c \in BuyOrders : c.token = "T1"
    /\ trade_last.branch["T2"] = "stop_loss"
    /\ \E c \in CreateOrders : c.token = "T2" /\ c.side = "SELL"

\* A pass sent a sell quote: the third kind of price C10 speaks of.
SellQuoteSent ==
    \E t \in Tokens :
        /\ trade_last.branch[t] \in {"sell", "sell_only"}
        /\ \E c \in CreateOrders : c.token = t /\ c.side = "SELL"

\* ------------------------------------------------------------------------
\* Cancel-replace properties
\* ------------------------------------------------------------------------

\* the orders handed to send_buy_order and send_sell_order in the pass just run
Sends == {trade_last.sends[i] : i \in DOMAIN trade_last.sends}

\* the open order a send found on the side it quotes
ExistingOf(s) == IF s.side = "BUY" THEN s.orders.buy ELSE s.orders.sell

\* the cancel_all_asset and create_order calls of the pass on token t, in order
CallsOn(t) ==
    SelectSeq(trade_last.calls,
              LAMBDA c : c.token = t /\ c.fn \in {"create_order", "cancel_all_asset"})

\* the new quote is within 0.001 in price and 10% in size of the open order
WithinThresholds(s) ==
    /\ ExistingOf(s).size > 0
    /\ Abs(ExistingOf(s).price.p - s.price) <= 10
    /\ Abs(ExistingOf(s).size - s.size) * 100 <= 10 * s.size

\* the new quote is beyond 0.001 in price or 10% in size of the open order
BeyondThresholds(s) ==
    /\ ExistingOf(s).size > 0
    /\ \/ Abs(ExistingOf(s).price.p - s.price) > 10
       \/ Abs(ExistingOf(s).size - s.size) * 100 > 10 * s.size

\* C11 (cancel-replace keep): when an open order exists on the side being
\* quoted and the new quote differs from it by at most 0.001 in price and by
\* at most 10% in size, the pass issues neither cancel_all_asset nor
\* create_order on that token.
C11_KeepWithinThresholds ==
    \A s \in Sends : WithinThresholds(s) => CallsOn(s.token) = <<>>

\* A quote equal in price and size to the open order was kept: no call.
QuoteKept ==
    \E s \in Sends :
        /\ ExistingOf(s).size = s.size
        /\ ExistingOf(s).price.p = s.price
        /\ CallsOn(s.token) = <<>>

\* A quote one tick of 0.001 from the open order, of the same size, was
\* cancelled and replaced.
QuoteOneTickAwayReplaced ==
    \E s \in Sends :
        /\ ExistingOf(s).size = s.size
        /\ Abs(ExistingOf(s).price.p - s.price) = 10
        /\ Len(CallsOn(s.token)) = 2

IsCancel(c, s) == c.fn = "cancel_all_asset" /\ c.token = s.token

IsCreate(c, s) ==
    /\ c.fn = "create_order" /\ c.token = s.token /\ c.side = s.side
    /\ c.price = s.price /\ c.size = s.size

\* C12 as stated (cancel-then-submit): when the new quote exceeds the price
\* or the size threshold relative to the open order, the pass calls
\* cancel_all_asset(token) and then create_order for the new quote, and no
\* cancel is left without its replacement.
C12_AlwaysReplaced ==
    \A s \in Sends :
        BeyondThresholds(s) =>
            /\ Len(CallsOn(s.token)) = 2
            /\ IsCancel(CallsOn(s.token)[1], s)
            /\ IsCreate(CallsOn(s.token)[2], s)

\* C12 amended: when the new quote exceeds the price or the size threshold
\* relative to the open order, the pass calls cancel_all_asset(token) and
\* then create_order for the new quote, in that order, unless the quote is a
\* buy priced below 0.1 or at or above 0.9, which is cancelled and not
\* replaced.
C12_CancelThenSubmit ==
    \A s \in Sends :
        BeyondThresholds(s) =>
            IF s.side = "BUY" /\ ~(s.price >= 1000 /\ s.price < 9000)
            THEN /\ Len(CallsOn(s.token)) = 1
                 /\ IsCancel(CallsOn(s.token)[1], s)
            ELSE /\ Len(CallsOn(s.token)) = 2
                 /\ IsCancel(CallsOn(s.token)[1], s)
                 /\ IsCreate(CallsOn(s.token)[2], s)

\* C12 witness: a sell quote far from the open sell was cancelled and
\* replaced, in that order.
C12_Witness ==
    \E s \in Sends :
        /\ s.side = "SELL"
        /\ BeyondThresholds(s)
        /\ Len(CallsOn(s.token)) = 2
        /\ IsCancel(CallsOn(s.token)[1], s)
        /\ IsCreate(CallsOn(s.token)[2], s)

\* A buy quote at 0.9 cancelled the open buy and was not sent.
BuyCancelledNotReplaced ==
    \E s \in Sends :
        /\ s.side = "BUY" /\ s.price = 9000
        /\ BeyondThresholds(s)
        /\ Len(CallsOn(s.token)) = 1

\* ------------------------------------------------------------------------
\* Stop-loss and risk-journal properties
\* ------------------------------------------------------------------------

\* what the pass just run read for token t: the book (which a pass leaves
\* as it is), rounded to the row's decimals, and the position
DeetsOf(t) == read_deets(get_best_bid_ask_deets(order_books, t, 100), order_books, t)

TopBidOf(t) == round(DeetsOf(t).top_bid.p, round_length(trade_last.row.tick_size))

TopAskOf(t) == round(DeetsOf(t).top_ask.p, round_length(trade_last.row.tick_size))

PositionOf(t) == get_position(trade_last.positions, t)

\* the pass came to the stop-loss test for token t
CameToStopLoss(t) ==
    /\ trade_last.op = "perform_trade"
    /\ trade_last.branch[t] \notin {"not_run", "no_top", "raised"}

\* pnl = (mid - avgPrice) / avgPrice * 100 < -4 and top_ask - top_bid <= 0.04
StopLossDue(t) ==
    LET avg == PositionOf(t).avgPrice
        bid == TopBidOf(t)
        ask == TopAskOf(t)
    IN  /\ avg.n > 0
        /\ ((bid + ask) * avg.d - 2 * avg.n) * 100 < -4 * 2 * avg.n
        /\ ask - bid <= 400

\* the pass sold the whole position of t at top_bid and placed nothing else on t
SoldOutAtTopBid(t) ==
    {c \in CreateOrders : c.token = t}
        = {Call("create_order", t, "SELL", TopBidOf(t), PositionOf(t).size)}

\* C13 (stop-loss): in a pass, for a token with pnl < -4 and
\* top_ask - top_bid <= 0.04, the pass submits a sell of the entire
\* position at top_bid, writes the market's risk journal with
\* sleep_till = now + 90 minutes, and issues no other quote on that token.
C13_StopLoss ==
    \A t \in Tokens :
        (CameToStopLoss(t) /\ StopLossDue(t)) =>
            /\ SoldOutAtTopBid(t)
            /\ journal[trade_last.market] >= trade_last.now + 90 * 60

\* The stop-loss fired on a spread of 0.02: the position sold at top_bid,
\* the journal written.
StopLossFired ==
    \E t \in Tokens :
        /\ CameToStopLoss(t) /\ StopLossDue(t)
        /\ TopAskOf(t) - TopBidOf(t) = 200
        /\ trade_last.branch[t] = "stop_loss"
        /\ SoldOutAtTopBid(t)
        /\ journal[trade_last.market] = trade_last.now + 90 * 60

\* The stop-loss did not fire on a spread of exactly 0.04.
StopLossMissedAtSpreadLimit ==
    \E t \in Tokens :
        /\ CameToStopLoss(t) /\ StopLossDue(t)
        /\ TopAskOf(t) - TopBidOf(t) = 400
        /\ trade_last.branch[t] # "stop_loss"

\* the journal the pass found was in force: written, and its sleep_till ahead
JournalInForce ==
    /\ trade_last.op = "perform_trade"
    /\ trade_last.journal[trade_last.market] # NoFile
    /\ trade_last.now < trade_last.journal[trade_last.market]

\* C14 (risk-journal suppression): from the moment a stop-loss writes the
\* journal of market m until sleep_till, no pass issues a BUY create_order
\* on either token of m: none in a pass that finds the journal in force,
\* and none on T2 in the pass whose stop-loss on T1 wrote it.
C14_NoBuyWhileRiskOff ==
    /\ JournalInForce => BuyOrders = {}
    /\ (trade_last.op = "perform_trade" /\ trade_last.branch["T1"] = "stop_loss")
           => BuyOrders = {}

\* C14 witness: a pass that found the journal of an earlier pass in force,
\* some time after it was written, came to the buy branch for a token and
\* sent no buy.
C14_Witness ==
    /\ JournalInForce
    /\ trade_last.now > 0
    /\ trade_last.journal[trade_last.market] < trade_last.now + 90 * 60
    /\ \E t \in Tokens : trade_last.branch[t] = "risk_off"
    /\ BuyOrders = {}

\* A pass at sleep_till or later bought again.
BuyAfterSleepTill ==
    /\ trade_last.op = "perform_trade"
    /\ trade_last.journal[trade_last.market] # NoFile
    /\ trade_last.now >= trade_last.journal[trade_last.market]
    /\ BuyOrders # {}

\* ------------------------------------------------------------------------
\* Sell-only properties
\* ------------------------------------------------------------------------

\* what the strategy asked to sell of token t in the pass just run
SellAmountOf(t) ==
    get_buy_sell_amount(PositionOf(t).size, trade_last.row, trade_last.sell_only).sell_amount

\* ask_price of token t in the pass just run
AskPriceOf(t) ==
    round(trade_last.strategy[t].ask, round_length(trade_last.row.tick_size))

SellAtAsk(t) == Call("create_order", t, "SELL", AskPriceOf(t), SellAmountOf(t))

SellAtTopBid(t) == Call("create_order", t, "SELL", TopBidOf(t), PositionOf(t).size)

\* C15 as stated (sell-only mode): in a pass where sell_only is true no BUY
\* create_order is issued for either token, and for a token with
\* sell_amount > 0 only a sell at ask_price is placed.
C15_SellOnlyAtAsk ==
    (trade_last.op = "perform_trade" /\ trade_last.sell_only) =>
        /\ BuyOrders = {}
        /\ \A t \in Tokens :
              (CameToStopLoss(t) /\ SellAmountOf(t) > 0) =>
                  {c \in CreateOrders : c.token = t} \subseteq {SellAtAsk(t)}

\* C15 amended: in a pass where sell_only is true no BUY create_order is
\* issued for either token, and for a token with sell_amount > 0 the only
\* order placed is a sell: of sell_amount at ask_price, or, when the
\* stop-loss fires for the token, of the whole position at top_bid.
C15_SellOnlyNoBuy ==
    (trade_last.op = "perform_trade" /\ trade_last.sell_only) =>
        /\ BuyOrders = {}
        /\ \A t \in Tokens :
              (CameToStopLoss(t) /\ SellAmountOf(t) > 0) =>
                  {c \in CreateOrders : c.token = t} \subseteq
                      (IF trade_last.branch[t] = "stop_loss"
                       THEN {SellAtTopBid(t)} ELSE {SellAtAsk(t)})

\* C15 witness: a sell-only pass placed the sell at ask_price for a token it
\* holds, and came to a token it does not hold without buying it.
C15_Witness ==
    /\ trade_last.op = "perform_trade" /\ trade_last.sell_only
    /\ \E t \in Tokens :
          /\ trade_last.branch[t] = "sell_only"
          /\ SellAmountOf(t) > 0
          /\ {c \in CreateOrders : c.token = t} = {SellAtAsk(t)}
    /\ \E t \in Tokens : trade_last.branch[t] = "idle" /\ PositionOf(t).size = 0

\* A sell-only pass sold at top_bid, below ask_price: the stop-loss fired.
SellOnlyStopLoss ==
    /\ trade_last.op = "perform_trade" /\ trade_last.sell_only
    /\ \E t \in Tokens :
          /\ trade_last.branch[t] = "stop_loss"
          /\ SellAtTopBid(t) \in CreateOrders
          /\ TopBidOf(t) < AskPriceOf(t)

\* ---------------------------------------------------------------------
\* the performing sets and the reconciliation of positions

\* the step is the processing of a trade message for column c and trade i
TradeEventOn(c, i) ==
    /\ user_last'.op = "trade"
    /\ user_last'.row.id = i
    /\ Col(user_last'.row.asset_id, user_last'.row.side) = c

\* trade i, in performing[c], was added more than STALE_TRADE_TIMEOUT ago
StaleIn(c, i) ==
    /\ c \in DOMAIN performing_timestamps
    /\ i \in DOMAIN performing_timestamps[c]
    /\ now - performing_timestamps[c][i] > STALE_TRADE_TIMEOUT

\* membership of trade i in performing[c] after a step that is not pruning
MemberAfterEvents(c, i) ==
    IF TradeEventOn(c, i)
    THEN CASE user_last'.row.status = "MATCHED" -> TRUE
           [] user_last'.row.status \in {"CONFIRMED", "MINED"} -> FALSE
           [] OTHER -> i \in performing[c]
    ELSE i \in performing[c]

\* C17 as stated: a trade ID is in performing[token_side] exactly from the
\* processing of its MATCHED event until the processing of its CONFIRMED or
\* MINED event, so no other step changes the membership
C17_MemberFromMatchedToConfirmed ==
    [][\A c \in Cols, i \in TradeIds :
          (i \in performing'[c]) <=> MemberAfterEvents(c, i)]_vars

\* C17 amended: a trade ID is in performing[token_side] exactly from the
\* processing of its MATCHED event until the processing of its CONFIRMED or
\* MINED event or until it is pruned as stale, whichever comes first; the
\* removal of an ID that is not present changes neither performing nor its
\* timestamps
C17_PerformingLifecycle ==
    [][/\ \A c \in Cols, i \in TradeIds :
             (i \in performing'[c]) <=>
                 IF user_last'.op = "prune"
                 THEN i \in performing[c] /\ ~StaleIn(c, i)
                 ELSE MemberAfterEvents(c, i)
       /\ \A c \in Cols, i \in TradeIds :
             ( /\ TradeEventOn(c, i)
               /\ user_last'.row.status \in {"CONFIRMED", "MINED"}
               /\ i \notin performing[c] )
             => /\ performing' = performing
                /\ performing_timestamps' = performing_timestamps]_vars

\* C17 witness: trade 1 has just been CONFIRMED and left performing while
\* trade 2, matched on the same column, is still there
C17_Witness ==
    /\ user_last.op = "trade"
    /\ user_last.row.status = "CONFIRMED"
    /\ user_last.row.id = 1
    /\ performing[Col("T1", "buy")] = {2}

\* the server's row for an asset in the last update_positions
ServerRowOf(a) == CHOOSE r \in user_last'.server : r.asset = a

\* the size of the position on a, zero when there is none
SizeOf(pos, a) == IF a \in DOMAIN pos THEN pos[a].size ELSE 0

\* nothing of token a is pending and its last local update, if any, is at
\* least 5 seconds old
SizeMayBeOverwritten(a) ==
    /\ performing[Col(a, "buy")] = {}
    /\ performing[Col(a, "sell")] = {}
    /\ a \in DOMAIN last_trade_update => now - last_trade_update[a] >= 5

\* C18: update_positions(avgOnly=True) always takes the server's avgPrice,
\* and takes the server's size only if performing is empty on both sides of
\* the token and at least 5 seconds have passed since last_trade_update of
\* the token; otherwise the local size stays
C18_AvgOnlyReconciliation ==
    [][(user_last'.op = "update_positions" /\ user_last'.avgOnly) =>
          \A a \in {r.asset : r \in user_last'.server} :
              /\ positions'[a].avgPrice = FracInt(ServerRowOf(a).avgPrice)
              /\ positions'[a].size =
                     IF SizeMayBeOverwritten(a) THEN ServerRowOf(a).size
                     ELSE SizeOf(positions, a)]_vars

\* C18 witness: an avg-only update while trade 3 is pending on the sell side
\* only: the average price is the server's and the size is not
C18_Witness ==
    /\ user_last.op = "update_positions"
    /\ user_last.avgOnly
    /\ performing[Col("T1", "buy")] = {}
    /\ performing[Col("T1", "sell")] = {3}
    /\ positions["T1"].avgPrice = FracInt(4500)
    /\ positions["T1"].size # 20

\* an avg-only update with nothing pending, less than 5 s after a fill,
\* left the size alone
SizeKeptAfterRecentFill ==
    /\ user_last.op = "update_positions"
    /\ user_last.avgOnly
    /\ performing[Col("T1", "buy")] = {}
    /\ performing[Col("T1", "sell")] = {}
    /\ "T1" \in DOMAIN last_trade_update
    /\ now - last_trade_update["T1"] < 5
    /\ positions["T1"].avgPrice = FracInt(4500)
    /\ positions["T1"].size = 10

\* an avg-only update with nothing pending, 5 s or more after the last
\* fill, took the server's size
SizeTakenFromServer ==
    /\ user_last.op = "update_positions"
    /\ user_last.avgOnly
    /\ "T1" \in DOMAIN last_trade_update
    /\ now - last_trade_update["T1"] >= 5
    /\ positions["T1"].size = 20
    /\ trade_count = 1

\* ---------------------------------------------------------------------
\* orders in flight, open sizes and the periodic update of orders

\* the IDs the exchange gave, in this step, to orders of market m
AcceptedNow(m) ==
    {i \in DOMAIN exch_orders' \ DOMAIN exch_orders : exch_orders'[i] = m}

\* the create_order calls of the last pass for a token and side
CreatesOf(calls, t, sd) ==
    SelectSeq(calls, LAMBDA c : c.fn = "create_order" /\ c.token = t /\ c.side = sd)

\* C16: OrdersInFlight(market) gains an order ID exactly when create_order
\* returns success with that ID, gains nothing when create_order fails, the
\* order not being submitted again in that pass, and loses the ID when an
\* order event (PLACEMENT, UPDATE or CANCELLATION) carrying it is processed
C16_InFlightLifecycle ==
    [][\A m \in Markets :
          /\ orders_in_flight'[m] =
                 IF trade_last'.op = "perform_trade"
                 THEN orders_in_flight[m] \cup AcceptedNow(m)
                 ELSE IF user_last'.op = "order"
                      THEN orders_in_flight[m] \ {user_last'.row.id}
                      ELSE orders_in_flight[m]
          /\ trade_last'.op = "perform_trade" =>
                 \A t \in Tokens, sd \in {"BUY", "SELL"} :
                     Len(CreatesOf(trade_last'.calls, t, sd)) <= 1]_vars

\* C16 witness: the order event for ID 1 has been processed and ID 2, of
\* the same accepted pass, is still in flight
C16_Witness ==
    /\ user_last.op = "order"
    /\ user_last.row.id = 1
    /\ orders_in_flight["m1"] = {2}

\* a pass whose create_order calls the exchange refused left nothing in flight
RefusedPassNothingInFlight ==
    /\ trade_last.op = "perform_trade"
    /\ \E i \in DOMAIN trade_last.calls : trade_last.calls[i].fn = "create_order"
    /\ exch_orders = <<>>
    /\ orders_in_flight["m1"] = {}

\* a pass whose two orders the exchange accepted has both in flight
AcceptedPassInFlight ==
    /\ trade_last.op = "perform_trade"
    /\ orders_in_flight["m1"] = {1, 2}

\* max(0, previous + / - the size the event type names)
OpenSizeAfter(previous, row) ==
    LET moved == IF row.type = "PLACEMENT" THEN previous + row.original_size
                 ELSE IF row.type = "UPDATE" THEN previous - row.size_matched
                 ELSE previous - row.original_size
    IN  IF moved < 0 THEN 0 ELSE moved

\* C19: for each order event on (token, side) the stored open size becomes
\* max(0, previous + original_size) on PLACEMENT, max(0, previous -
\* size_matched) on UPDATE and max(0, previous - original_size) on
\* CANCELLATION; after any sequence of order events no stored open size is
\* negative
C19_OpenSizeAccounting ==
    [][/\ user_last'.op = "order" =>
             LET row == user_last'.row IN
             orders'[row.asset_id][row.side].size =
                 OpenSizeAfter(stored_order_size(orders, row.asset_id, row.side), row)
       /\ \A t \in DOMAIN orders' : \A sd \in DOMAIN orders'[t] :
             orders'[t][sd].size >= 0]_vars

\* C19 witness: a CANCELLATION of 10 shares found 6 open and left 0
C19_Witness ==
    /\ user_last.op = "order"
    /\ user_last.row.type = "CANCELLATION"
    /\ user_last.prev = 6
    /\ orders[user_last.row.asset_id][user_last.row.side].size = 0

\* an UPDATE of 4 matched shares found 10 open and left 6
UpdateReducedOpenSize ==
    /\ user_last.op = "order"
    /\ user_last.row.type = "UPDATE"
    /\ user_last.prev = 10
    /\ orders[user_last.row.asset_id][user_last.row.side].size = 6

\* the tokens with more than one open order on some side in what the server
\* reported
DuplicatedTokens(all_orders) ==
    {t \in Tokens : \E sd \in Sides : Len(sel_orders(all_orders, t, sd)) > 1}

\* C20: after update_orders, for every token on which the server reports
\* more than one open order on some side, cancel_all_asset(token) has been
\* called and the local orders of the token are {price 0, size 0} on both
\* the buy and the sell side
C20_DuplicatesReset ==
    user_last.op = "update_orders" =>
        \A t \in DuplicatedTokens(user_last.server) :
            /\ \E i \in DOMAIN user_last.calls :
                   user_last.calls[i] = Call("cancel_all_asset", t, "", 0, 0)
            /\ t \in DOMAIN orders
            /\ orders[t] = NoOrders

\* two open buys and no sell: cancelled and both sides at zero
DuplicateBuysReset ==
    /\ user_last.op = "update_orders"
    /\ Len(sel_orders(user_last.server, "T1", "buy")) = 2
    /\ Len(user_last.calls) = 1
    /\ orders["T1"] = NoOrders

\* two open buys and one sell: cancelled, and the sell is in the local view
DuplicateBuysSellKept ==
    /\ user_last.op = "update_orders"
    /\ Len(sel_orders(user_last.server, "T1", "buy")) = 2
    /\ Len(user_last.calls) = 1
    /\ orders["T1"].buy = NoOrder
    /\ orders["T1"].sell = [price |-> float(4600), size |-> 10]

\* ---------------------------------------------------------------------
\* the agent's orders on the exchange

\* the agent's open orders on a token and side
OpenOn(t, sd) == {o \in exchange.open : o.token = t /\ o.side = sd}

\* C21: at most one open quote per side per token: create_order for
\* (token, side) is never issued while an order of the agent submitted
\* before is still open, uncancelled, on that token and side; so the
\* exchange never holds two open orders of the agent on one token and side
C21_OneOpenQuotePerSide ==
    \A t \in Tokens, sd \in {"BUY", "SELL"} : Cardinality(OpenOn(t, sd)) <= 1

\* C21 witness: a pass has requoted T1: it cancelled the open buy and
\* submitted another, which is the only open buy
C21_Witness ==
    /\ trade_last.op = "perform_trade"
    /\ \E i, j \in DOMAIN trade_last.calls :
           /\ i < j
           /\ trade_last.calls[i] = Call("cancel_all_asset", "T1", "", 0, 0)
           /\ trade_last.calls[j].fn = "create_order"
           /\ trade_last.calls[j].token = "T1"
           /\ trade_last.calls[j].side = "BUY"
    /\ \E o \in exchange.open : o.id > 1 /\ o.token = "T1" /\ o.side = "BUY"
    /\ 1 \in DOMAIN exch_orders

\* the position has reached max_size and the pass has an open sell on T1
SellOpenOnExchange ==
    \E o \in exchange.open : o.token = "T1" /\ o.side = "SELL"

\* ---------------------------------------------------------------------
\* what the user channel asks of the scheduler

\* the scheduler's answer to schedule_task(market) once the event's order
\* is out of the orders in flight
ScheduledFor(market) ==
    schedule_task(inflight, tasks, orders_in_flight', market)

\* C22: an order event of type UPDATE requests a trading pass for its
\* market via the scheduler (schedule_task is called for the market, which
\* spawns a pass unless the market is in flight or has orders in flight),
\* and an order event of type PLACEMENT never requests one
C22_OrderEventScheduling ==
    [][user_last'.op = "order" =>
          LET market == sched_last'.market IN
          /\ user_last'.row.type = "UPDATE" =>
                 /\ inflight' = ScheduledFor(market).inflight
                 /\ tasks' = ScheduledFor(market).tasks
          /\ user_last'.row.type = "PLACEMENT" =>
                 /\ inflight' = inflight
                 /\ tasks' = tasks]_vars

\* C22 witness: an UPDATE for the only order in flight of a market with no
\* live pass has spawned a pass for it
C22_Witness ==
    /\ user_last.op = "order"
    /\ user_last.row.type = "UPDATE"
    /\ sched_last.oif[sched_last.market] = {user_last.row.id}
    /\ sched_last.market \notin sched_last.inflight
    /\ sched_last.market \in inflight
    /\ tasks[sched_last.market] = sched_last.tasks[sched_last.market] + 1

\* a PLACEMENT for the only order in flight of a market with no live pass
\* has spawned nothing
PlacementSpawnedNothing ==
    /\ user_last.op = "order"
    /\ user_last.row.type = "PLACEMENT"
    /\ sched_last.oif[sched_last.market] = {user_last.row.id}
    /\ sched_last.market \notin sched_last.inflight
    /\ sched_last.market \notin inflight


\* a MATCHED trade message has just been handled
MatchedTradeStep ==
    /\ user_last'.op = "trade"
    /\ user_last'.row.status = "MATCHED"

\* the step applied set_position(token, side, size, price) to the positions
PositionUpdatedWith(token, side, size, price) ==
    positions' = set_position(positions, token, side, size, price).positions

MakerOtherOutcomeApplied ==
    /\ user_last.op = "trade"
    /\ user_last.row.status = "MATCHED"
    /\ user_last.row.maker = "maker_other"
    /\ "T2" \in DOMAIN positions
    /\ positions["T2"].size = -5


\* a FAILED trade message has just been handled
FailedTradeStep ==
    /\ user_last'.op = "trade"
    /\ user_last'.row.status = "FAILED"

\* C24: the handling of a FAILED trade message does not itself call
\* update_positions, which runs only after a short delay: the step that
\* handles the message leaves the positions as they were
C24_FailedReconcilesAfterDelay ==
    [][FailedTradeStep => positions' = positions]_vars

\* the handling of a FAILED message replaced the local position of 10 T1 by
\* the server's 20 in the same step, with trade 1 still pending
FailedReconciledAtOnce ==
    /\ user_last.op = "trade"
    /\ user_last.row.status = "FAILED"
    /\ performing[Col("T1", "buy")] # {}
    /\ "T1" \in DOMAIN positions
    /\ positions["T1"].size = 20
    /\ now = 0


\* price is the first level of ladder, from the top, holding more than probe:
\* it holds more than probe and no level before it does; None if none does
BestLevelOf(ladder, price, probe, reverse) ==
    IF \A k \in DOMAIN ladder : ladder[k] <= probe
    THEN price = None
    ELSE /\ price \in DOMAIN ladder
         /\ ladder[price] > probe
         /\ \A k \in DOMAIN ladder :
                (IF reverse THEN k.p > price.p ELSE k.p < price.p) => ladder[k] <= probe

\* C25: get_best_bid_ask_deets returns as best bid (best ask) the highest
\* bid (lowest ask) of the book without the agent's own orders whose size is
\* strictly more than the probe, None when there is none; the engine probes
\* with 100 and goes on with that answer unless a best price or best size
\* of it is None, and only then probes again with 20 and goes on with that
C25_BestLevelProbe ==
    book_last.op = "read_deets" =>
        LET view  == OB_get_order_book_exclude_self(order_books, book_last.token).ret
            d100  == get_best_bid_ask_deets(order_books, book_last.token, 100)
            deets == book_last.ret.deets
            probe == book_last.ret.probes[Len(book_last.ret.probes)]
            null  == \/ ~\E k \in DOMAIN view.bids : view.bids[k] > 100
                     \/ ~\E k \in DOMAIN view.asks : view.asks[k] > 100
        IN  /\ book_last.ret.probes = IF null THEN <<100, 20>> ELSE <<100>>
            /\ BestLevelOf(view.bids, d100.best_bid, 100, TRUE)
            /\ BestLevelOf(view.asks, d100.best_ask, 100, FALSE)
            /\ BestLevelOf(view.bids, deets.best_bid, probe, TRUE)
            /\ BestLevelOf(view.asks, deets.best_ask, probe, FALSE)
            /\ deets.best_bid # None => deets.best_bid_size = view.bids[deets.best_bid]
            /\ deets.best_ask # None => deets.best_ask_size = view.asks[deets.best_ask]

\* C25 witness: the top bid holds exactly 100 and the top ask exactly 20; the
\* probe with 100 passed over the top bid and found no ask, and the probe
\* with 20 took the top bid and passed over the top ask
C25_Witness ==
    /\ book_last.op = "read_deets"
    /\ book_last.ret.probes = <<100, 20>>
    /\ LET view == OB_get_order_book_exclude_self(order_books, book_last.token).ret
           d100 == get_best_bid_ask_deets(order_books, book_last.token, 100)
       IN  /\ float(4000) \in DOMAIN view.bids
           /\ view.bids[float(4000)] = 100
           /\ d100.best_bid = float(3900)
           /\ float(4200) \in DOMAIN view.asks
           /\ view.asks[float(4200)] = 20
           /\ book_last.ret.deets.best_bid = float(4000)
           /\ book_last.ret.deets.best_ask = float(4300)

\* the probe with 100 found both sides and was not repeated
ProbedOnce ==
    /\ book_last.op = "read_deets"
    /\ book_last.ret.probes = <<100>>
    /\ book_last.ret.deets.best_bid = float(4000)
    /\ book_last.ret.deets.best_ask = float(4300)

\* the only bids are the agent's own 30 at 0.42: the view has no bid once
\* they are taken off, and neither probe finds one
OwnOrderLeftOut ==
    /\ book_last.op = "read_deets"
    /\ book_last.token = "T1"
    /\ order_books["T1"].orders.buy.size = 30
    /\ DOMAIN order_books["T1"].bids = {float(4200)}
    /\ order_books["T1"].bids[float(4200)] = 30
    /\ book_last.ret.probes = <<100, 20>>
    /\ book_last.ret.deets.best_bid = None
    /\ book_last.ret.deets.top_bid = None


\* the book of t without the agent's own orders has no bid or no ask
NoReferencePrice(t) ==
    LET view == OB_get_order_book_exclude_self(order_books, t).ret IN
    DOMAIN view.bids = {} \/ DOMAIN view.asks = {}

\* the calls of the last pass that place or cancel orders of token t
OrderCallsFor(t) ==
    {i \in DOMAIN trade_last.calls :
        /\ trade_last.calls[i].token = t
        /\ trade_last.calls[i].fn \in {"create_order", "cancel_all_asset"}}

\* C26: a token whose book without the agent's own orders has no bid or no
\* ask gets no create_order and no cancel_all_asset in the pass, and the pass
\* goes on to the other token of the market
C26_MissingReferencePrice ==
    trade_last.op = "perform_trade" =>
        \A t \in Tokens :
            NoReferencePrice(t) =>
                /\ OrderCallsFor(t) = {}
                /\ trade_last.branch[t] \in {"no_top", "not_run"}
                /\ trade_last.branch[t] = "no_top" =>
                       /\ ~trade_last.aborted
                       /\ trade_last.branch[REVERSE_TOKENS[t]] # "not_run"

\* C26 witness: T1's only bid is the agent's own, so T1 has no reference price
\* and gets no call, and the pass went on to place a buy on T2
C26_Witness ==
    /\ trade_last.op = "perform_trade"
    /\ NoReferencePrice("T1")
    /\ DOMAIN order_books["T1"].bids # {}
    /\ trade_last.branch["T1"] = "no_top"
    /\ OrderCallsFor("T1") = {}
    /\ \E i \in DOMAIN trade_last.calls :
           /\ trade_last.calls[i].token = "T2"
           /\ trade_last.calls[i].fn = "create_order"

\* the book has bids and no asks on T1, so asks and no bids on T2: both
\* tokens were passed over
BothTokensSkipped ==
    /\ trade_last.op = "perform_trade"
    /\ DOMAIN order_books["T1"].bids # {}
    /\ DOMAIN order_books["T1"].asks = {}
    /\ trade_last.branch = [t \in Tokens |-> "no_top"]
    /\ trade_last.calls = <<>>


\* an amount under min_size: min_size when it is more than 70% of it, else 0
ToMinSize(amount, min_size) ==
    CASE amount >= min_size -> amount
      [] 10 * amount > 7 * min_size -> min_size
      [] OTHER -> 0

Smaller(x, y) == IF x <= y THEN x ELSE y

\* the amounts as C27 states them
StatedAmounts(position, row, force_sell) ==
    LET buy  == IF position < row.max_size
                THEN Smaller(row.trade_size, row.max_size - position) ELSE 0
        sell == IF position >= row.trade_size \/ force_sell THEN position ELSE 0
    IN  [buy_amount  |-> IF force_sell THEN 0 ELSE ToMinSize(buy, row.min_size),
         sell_amount |-> IF force_sell
                         THEN Smaller(ToMinSize(sell, row.min_size), position)
                         ELSE ToMinSize(sell, row.min_size)]

\* C27 as stated: buy_amount is min(trade_size, max_size - position) below
\* max_size and 0 otherwise, sell_amount is the position when it is at least
\* trade_size or under force_sell and 0 otherwise, each raised to min_size
\* when within 70% of it and dropped to 0 when smaller; under force_sell
\* buy_amount is 0 and sell_amount is min(sell_amount, position)
C27_AmountsAsStated ==
    pos_last.op = "get_buy_sell_amount" =>
        pos_last.ret = StatedAmounts(pos_last.inp.position, pos_last.inp.row,
                                     pos_last.inp.force_sell)

\* C27 amended: as stated, and without force_sell a sell_amount that the
\* raising to min_size has put above the position is 0
C27_Amounts ==
    pos_last.op = "get_buy_sell_amount" =>
        LET inp    == pos_last.inp
            stated == StatedAmounts(inp.position, inp.row, inp.force_sell)
        IN  /\ pos_last.ret.buy_amount = stated.buy_amount
            /\ pos_last.ret.sell_amount =
                   IF ~inp.force_sell /\ stated.sell_amount > inp.position
                   THEN 0 ELSE stated.sell_amount

\* C27 witness: a position of 4 with trade_size 3 and min_size 5, no
\* force_sell: 4 raised to 5 is more than is held, and nothing is sold
C27_Witness ==
    /\ pos_last.op = "get_buy_sell_amount"
    /\ pos_last.inp.position = 4
    /\ pos_last.inp.row.trade_size = 3
    /\ pos_last.inp.row.min_size = 5
    /\ ~pos_last.inp.force_sell
    /\ pos_last.ret.sell_amount = 0

\* under force_sell the same position is sold as it is, and nothing bought
ForceSellSellsWhatIsHeld ==
    /\ pos_last.op = "get_buy_sell_amount"
    /\ pos_last.inp.position = 4
    /\ pos_last.inp.row.min_size = 5
    /\ pos_last.inp.force_sell
    /\ pos_last.ret = [buy_amount |-> 0, sell_amount |-> 4]

\* 8 of the 10 of min_size left to max_size: the buy is raised to 10
BuyRaisedToMinSize ==
    /\ pos_last.op = "get_buy_sell_amount"
    /\ pos_last.inp.position = 4
    /\ pos_last.inp.row.max_size = 12
    /\ pos_last.inp.row.trade_size = 10
    /\ pos_last.inp.row.min_size = 10
    /\ ~pos_last.inp.force_sell
    /\ pos_last.ret.buy_amount = 10


\* the calls of client.merge_positions in the last pass
MergeCalls ==
    {i \in DOMAIN trade_last.calls : trade_last.calls[i].fn = "merge_positions"}

\* the smaller of the two positions the pass found
SmallerPosition ==
    Smaller(get_position(trade_last.positions, "T1").size,
            get_position(trade_last.positions, "T2").size)

NoMergeAtTwenty ==
    /\ trade_last.op = "perform_trade"
    /\ SmallerPosition = 20
    /\ MergeCalls = {}
    /\ trade_last.branch["T1"] # "not_run"

\* the local positions are 25 and 25 but the chain holds 15: no merge
NoMergeWhileChainBehind ==
    /\ trade_last.op = "perform_trade"
    /\ SmallerPosition = 25
    /\ MergeCalls = {}
    /\ trade_last.branch["T1"] # "not_run"


\* C29: every trade ID added to a performing set is removed in the end, by
\* its CONFIRMED or MINED event or by the pruning once it is more than
\* STALE_TRADE_TIMEOUT = 15 s old, so no token has a pending trade forever
C29_StaleEntriesLeave ==
    /\ \A c \in Cols, i \in TradeIds : (i \in performing[c]) ~> (i \notin performing[c])
    /\ \A a \in Tokens :
           []<>(performing[Col(a, "buy")] = {} /\ performing[Col(a, "sell")] = {})

\* C29 witness: trade 1 was matched and then failed (the position is the
\* server's 20, not the 10 of the one fill), and 16 s later the pruning
\* removed it, the only pending trade
C29_Witness ==
    /\ user_last.op = "prune"
    /\ user_last.prev = 1
    /\ now = 16
    /\ trade_count = 1
    /\ positions["T1"].size = 20
    /\ \A c \in Cols : performing[c] = {}

\* a trade matched 8 s ago is still pending after a pruning run
NotYetStale ==
    /\ user_last.op = "prune"
    /\ user_last.prev = 0
    /\ now = 8
    /\ performing[Col("T1", "buy")] = {1}


\* schedule_task for market m, called in the state after the step, spawns a pass
SpawnsAfter(m) ==
    schedule_task(inflight', tasks', orders_in_flight', m).tasks[m] = tasks'[m] + 1

\* C30: an exception raised inside a pass stays inside it: run_task sees a
\* normal return, the market leaves the in-flight set, the passes and
\* in-flight marks of the other markets are untouched, and schedule_task
\* spawns a pass again for every market with no live pass and no orders in
\* flight, the market of the failed pass included
C30_ExceptionContained ==
    [][(trade_last'.op = "perform_trade" /\ trade_last'.aborted) =>
          LET m == trade_last'.market IN
          /\ ended'[m] = "ok"
          /\ m \notin inflight'
          /\ tasks'[m] = tasks[m] - 1
          /\ \A o \in Markets \ {m} :
                 /\ tasks'[o] = tasks[o]
                 /\ (o \in inflight') = (o \in inflight)
                 /\ ended'[o] = ended[o]
          /\ \A o \in Markets :
                 (tasks'[o] = 0 /\ orders_in_flight'[o] = {}) => SpawnsAfter(o)]_vars

\* C30 witness: a pass of m1 has just raised at its first token while a
\* pass of m2 is live: m1 is released, run_task saw a normal return, and a
\* schedule_task for m1 now would spawn its next pass
C30_Witness ==
    /\ trade_last.op = "perform_trade"
    /\ trade_last.aborted
    /\ trade_last.branch["T1"] = "raised"
    /\ ended["m1"] = "ok"
    /\ "m1" \notin inflight
    /\ tasks["m1"] = 0
    /\ "m2" \in inflight
    /\ schedule_task(inflight, tasks, orders_in_flight, "m1").tasks["m1"] = 1

\* a pass of m1 raised for the second token, after its buy on the first was
\* accepted: the market is released with that order still in flight, and
\* m2's pass is live all the while
RaisedWithOrderInFlight ==
    /\ trade_last.op = "perform_trade"
    /\ trade_last.aborted
    /\ trade_last.branch = [T1 |-> "buy", T2 |-> "raised"]
    /\ orders_in_flight["m1"] # {}
    /\ "m1" \notin inflight
    /\ "m2" \in inflight

\* ------------------------------------------------------------------------
\* The ingest loops, the scheduler and the passes together
\* ------------------------------------------------------------------------

\* the fills the user channel reports while passes come and go: the agent
\* buys T1 as a taker, twice
CoalesceTradeRows == {TradeRow(id, "T1", "buy", "MATCHED", "taker") : id \in {1, 2}}

\* process_market_data for a "book" message of a market: process_book_data
\* stores the ladders in global_state.order_book_data, then schedule_task is
\* awaited; nothing else runs between the two
ProcessMarketData(market, token, json_data) ==
    /\ order_book_data' = process_book_data(order_book_data, token, json_data)
    /\ \E r \in {schedule_task(inflight, tasks, orders_in_flight, market)} :
           /\ inflight' = r.inflight
           /\ tasks' = r.tasks
    /\ sched_last' = Found("schedule", market, "market_data", 0)
    /\ feed_last' = [op |-> "process_book_data", token |-> token,
                     raised |-> FALSE, ret |-> NoRet]
    /\ pos_last' = NoPosLast
    /\ book_last' = NoBookLast
    /\ trade_last' = NoTradeLast
    /\ user_last' = NoUserLast
    /\ UNCHANGED <<exchange, orders_in_flight, exch_orders, ended, positions,
                   trade_count, order_books, orders, journal, now, performing,
                   performing_timestamps, last_trade_update>>

\* the two ingest loops trigger passes of m1 with book messages and fills,
\* the spawned passes run over the book OrderBooks holds, and the order
\* messages of what they place arrive
NextCoalesce ==
    \/ \E json_data \in ExchangeSnapshots : ProcessMarketData("m1", "T1", json_data)
    \/ \E row \in CoalesceTradeRows : ProcessUserTrade(row, {})
    \/ \E inp \in ContainPassInputs : RunPass("m1", inp)
    \/ DeliverOrderEvent
    \/ \E json_data \in ExchangeSnapshots : OBProcessBookData("T1", json_data)

\* run_task is an asyncio task: once created, the event loop runs it
SpecCoalesce ==
    /\ InitAll
    /\ [][NextCoalesce]_vars
    /\ WF_vars(\E inp \in ContainPassInputs : RunPass("m1", inp))

\* ------------------------------------------------------------------------
\* Properties of coalescing
\* ------------------------------------------------------------------------

\* a pass of market m has just run
PassRan(m) == trade_last.op = "perform_trade" /\ trade_last.market = m

\* the sizes a position on T1 can have after the fills of CoalesceTradeRows
HeldSizes == {0, 10, 20}

C32_ConsolidatedView ==
    \A t \in DOMAIN order_book_data :
        OB_get_order_book_exclude_self(order_books, t).ret
            = get_order_book_exclude_self(order_book_data, orders, t)

\* a pass of m1 finds no bid and no ask on T1 and skips it, although the
\* last "book" message for T1 was processed before the pass and stored a
\* bid of 100 at 0.42 and an ask of 80 at 0.58
PassBlindToIngestedBook ==
    /\ PassRan("m1")
    /\ trade_last.branch["T1"] = "no_top"
    /\ "T1" \in DOMAIN order_book_data
    /\ order_book_data["T1"].bids = SetItem(SortedDict, float(4200), 100)
    /\ order_book_data["T1"].asks = SetItem(SortedDict, float(5800), 80)
    /\ order_books["T1"].bids = SortedDict


\* ------------------------------------------------------------------------
\* Properties of the order messages
\* ------------------------------------------------------------------------

\* what data_utils.get_order answers for one side of a token
StoredOrder(ords, token, side) == get_order(ords, token).ret[side]

\* C33: an "order" message for a token and side leaves the stored price
\* and size of the token's other side as they were
C33_OrderEventFrame ==
    [][user_last'.op = "order" =>
          LET row   == user_last'.row
              other == OppositeSide(lower(row.side))
          IN  StoredOrder(orders', row.asset_id, other)
                  = StoredOrder(orders, row.asset_id, other)]_vars

\* the PLACEMENT of a sell of 10 on T1 has just been processed, and the buy
\* of 10 on T1 that is open at the exchange is no longer stored
BuyForgottenAfterSellEvent ==
    /\ user_last.op = "order"
    /\ user_last.row.side = "sell"
    /\ user_last.row.type = "PLACEMENT"
    /\ user_last.row.asset_id = "T1"
    /\ \E o \in exchange.open : o.token = "T1" /\ o.side = "BUY" /\ o.size = 10
    /\ StoredOrder(orders, "T1", "sell").size = 10
    /\ StoredOrder(orders, "T1", "buy") = NoOrder


\* ------------------------------------------------------------------------
\* Properties of the orders in flight, over time
\* ------------------------------------------------------------------------

\* the exchange delivers the order messages it has sent: the user channel
\* is read by a task of the event loop, which no pass holds up for good
SpecInFlight ==
    /\ InitAll
    /\ [][NextCoalesce]_vars
    /\ WF_vars(DeliverOrderEvent)

\* the IDs of the order messages the exchange has sent and the agent has
\* not processed yet
PendingEventIds == {exchange.events[i].id : i \in DOMAIN exchange.events}

\* C34: an order ID is registered in flight by the pass that submitted the
\* order, before any message about the order is processed, so every ID in
\* flight has a message to come; and once the messages are delivered the
\* market has no order in flight and schedule_task spawns its passes again
C34_InFlightCleared ==
    /\ [](\A m \in Markets : orders_in_flight[m] \subseteq PendingEventIds)
    /\ \A m \in Markets :
           (orders_in_flight[m] # {}) ~> (orders_in_flight[m] = {})

\* C34 witness: the order message just processed was about the last order
\* m1 had in flight, and m1 has none now
C34_Witness ==
    /\ sched_last.op = "order_event"
    /\ sched_last.market = "m1"
    /\ sched_last.oif["m1"] = {sched_last.id}
    /\ orders_in_flight["m1"] = {}
    /\ schedule_task(inflight, tasks, orders_in_flight, "m1").tasks["m1"] = 1


\* ------------------------------------------------------------------------
\* Properties of the performing keys
\* ------------------------------------------------------------------------

\* the keys under which the step recorded the trade ID of its message
KeysRecorded ==
    {k \in DOMAIN performing' :
        /\ user_last'.row.id \in performing'[k]
        /\ k \in DOMAIN performing => user_last'.row.id \notin performing[k]}

\* the tokens whose local position the step changed
TokensChanged ==
    {t \in Tokens : get_position(positions', t) # get_position(positions, t)}

\* C35: the performing key under which a MATCHED trade ID is recorded names
\* the token whose local position the trade changed
C35_PerformingKeyMatchesToken ==
    [][MatchedTradeStep =>
          \A k \in KeysRecorded : \A t \in TokensChanged : k[1] = t]_vars

\* trade 3, matched against the agent's maker order with the other outcome,
\* is pending under the key of T1 while its fill is in the position of T2;
\* an avg-only update_positions has just replaced the size of T2 by the
\* server's 5, the pending fill lost, no trade being pending for T2
PendingFillOverwritten ==
    /\ user_last.op = "update_positions"
    /\ user_last.avgOnly
    /\ Col("T1", "sell") \in DOMAIN performing
    /\ 3 \in performing[Col("T1", "sell")]
    /\ \A sd \in Sides : Col("T2", sd) \in DOMAIN performing => performing[Col("T2", sd)] = {}
    /\ "T2" \in DOMAIN last_trade_update
    /\ SizeOf(positions, "T2") = 5


\* the trade ID of the message the step handled was already recorded under
\* the message's key: the message has been processed before and its trade
\* is still pending
SeenBefore ==
    LET row == user_last'.row
        col == Col(row.asset_id, lower(row.side))
    IN  col \in DOMAIN performing /\ row.id \in performing[col]

\* C36: a MATCHED trade message whose trade ID has been processed already
\* leaves the sizes and average prices of the local positions as they are
C36_FillAppliedOnce ==
    [][(MatchedTradeStep /\ SeenBefore) => positions' = positions]_vars


\* ------------------------------------------------------------------------
\* Passes over a position that was bought and sold again
\* ------------------------------------------------------------------------

\* passes over market m1 while 10 shares of T1 are bought at 0.50 and sold
\* again (only what is held is sold), over books that do and do not trip
\* the stop-loss, with the order messages of what the passes place
NextFlat ==
    \/ \E inp \in RiskPassInputs : PerformTrade("m1", inp)
    \/ \E side \in Sides :
          /\ side = "sell" => get_position(positions, "T1").size >= 10
          /\ SetPosition("T1", side, 10, 5000)
    \/ \E json_data \in RiskSnapshots : OBProcessBookData("T1", json_data)
    \/ DeliverOrderEvent

SpecFlat == InitAll /\ [][NextFlat]_vars

\* C37: a pass takes the stop-loss branch for a token (the sell submitted
\* and the risk journal written) only when the token's position is greater
\* than zero
C37_StopLossNeedsInventory ==
    \A t \in Tokens :
        (trade_last.op = "perform_trade" /\ trade_last.branch[t] = "stop_loss")
            => PositionOf(t).size > 0

\* a pass found T1 with position 0 and the average price 0.50 of the shares
\* bought and sold before, over a book of 0.40 to 0.42: it submitted a sell
\* of 0 shares at 0.40 and wrote the journal, which had not been written
\* before and now keeps buys off the market for 90 minutes
ZeroSizeStopLoss ==
    /\ trade_last.op = "perform_trade"
    /\ trade_last.branch["T1"] = "stop_loss"
    /\ PositionOf("T1") = [size |-> 0, avgPrice |-> FracInt(5000)]
    /\ \E i \in DOMAIN trade_last.calls :
           trade_last.calls[i] = Call("create_order", "T1", "SELL", 4000, 0)
    /\ trade_last.journal["m1"] = NoFile
    /\ journal["m1"] = trade_last.now + STOP_LOSS_SLEEP_PERIOD_MINS * 60


\* ------------------------------------------------------------------------
\* Properties of the order sizes and max_size
\* ------------------------------------------------------------------------

\* C38: for a position below max_size, the buy_amount get_buy_sell_amount
\* returns takes the position to max_size at most
C38_ExposureCap ==
    (pos_last.op = "get_buy_sell_amount"
        /\ pos_last.inp.position < pos_last.inp.row.max_size)
    => pos_last.inp.position + pos_last.ret.buy_amount <= pos_last.inp.row.max_size

\* with 8 shares held and a max_size of 12, trade_size 5 and min_size 5,
\* the 4 shares left to max_size are raised to the 5 of min_size: a filled
\* buy takes the position to 13
BuyPastMaxSize ==
    /\ pos_last.op = "get_buy_sell_amount"
    /\ pos_last.inp.position = 8
    /\ pos_last.inp.row.max_size = 12
    /\ pos_last.inp.row.trade_size = 5
    /\ pos_last.inp.row.min_size = 5
    /\ ~pos_last.inp.force_sell
    /\ pos_last.ret.buy_amount = 5


\* ------------------------------------------------------------------------
\* Properties of the mirrored own orders
\* ------------------------------------------------------------------------

\* C39: after OrderBook.set_order(side, size, price) on a token, the own
\* order of the mirror token on the opposite side has the same size and the
\* price 1 - price
C39_OwnOrderMirrored ==
    [][book_last'.op = "set_order" =>
          LET t == book_last'.token
              r == REVERSE_TOKENS[t]
          IN  \A sd \in Sides :
                  order_books'[t].orders[sd] # order_books[t].orders[sd] =>
                      order_books'[r].orders[OppositeSide(sd)]
                          = [price |-> rev_price(order_books'[t].orders[sd].price),
                             size  |-> order_books'[t].orders[sd].size]]_vars

\* the agent's buy of 30 at 0.42 on T1 is in T1's book and, mirrored, in the
\* asks of T2 at 0.58; the own sell recorded for T2 is at 0.42, and the view
\* of T2 without the agent's orders still shows the ask at 0.58 in full
MirrorViewKeepsOwnOrder ==
    /\ order_books["T1"].orders.buy = [price |-> float(4200), size |-> 30]
    /\ float(4200) \in DOMAIN order_books["T1"].bids
    /\ order_books["T2"].orders.sell = [price |-> float(4200), size |-> 30]
    /\ float(5800) \in DOMAIN order_books["T2"].asks
    /\ LET view == OB_get_order_book_exclude_self(order_books, "T2").ret IN
       /\ float(5800) \in DOMAIN view.asks
       /\ view.asks[float(5800)] = order_books["T2"].asks[float(5800)]


\* ------------------------------------------------------------------------
\* Properties of the two tokens of a pass
\* ------------------------------------------------------------------------

\* passes in which the strategy raises for the first token only, for the
\* second only, or for neither
IsolationPassInputs ==
    {PassInput(TRUE, BaseRow, TRUE, TRUE, AmpleLiquidity, s, TRUE) :
        s \in {[T1 |-> Raises, T2 |-> Quote(4237, 4462)],
               [T1 |-> Quote(4237, 4462), T2 |-> Raises],
               [t \in Tokens |-> Quote(4237, 4462)]}}

\* passes over market m1, some of them raising at one of the tokens, with
\* the book, the fills and the order messages around them
NextIsolation ==
    \/ \E inp \in IsolationPassInputs : PerformTrade("m1", inp)
    \/ \E json_data \in ExchangeSnapshots : OBProcessBookData("T1", json_data)
    \/ \E price \in TradeFillPrices : SetPosition("T1", "buy", 10, price)
    \/ DeliverOrderEvent

SpecIsolation == InitAll /\ [][NextIsolation]_vars

\* C40: a pass in which the processing of the first token raised has
\* processed the second token all the same
C40_TokenIsolation ==
    (PassRan("m1") /\ trade_last.branch["T1"] = "raised")
        => trade_last.branch["T2"] # "not_run"

\* the strategy raised for T1 and the pass ended there: T2, which has a bid
\* and an ask and for which the strategy would have quoted, was not looked
\* at and no call went to the exchange
SecondTokenNotProcessed ==
    /\ PassRan("m1")
    /\ trade_last.branch = [T1 |-> "raised", T2 |-> "not_run"]
    /\ ~trade_last.strategy["T2"].raises
    /\ ~no_reference_price(DeetsOf("T2"))
    /\ trade_last.calls = <<>>


====
